---- MODULE Spec2Model ----
(***************************************************************************)
(* Discrete-event priority-queueing simulators of the repository, as state *)
(* machines.  One step of a specification is one step of the event         *)
(* scheduler (env.step()): the earliest scheduled event is taken from the  *)
(* event list, the clock is set to its time and the process waiting for it *)
(* runs up to its next yield.                                              *)
(*                                                                         *)
(* Time is counted in whole ticks and arithmetic is exact.                 *)
(*                                                                         *)
(* SpecHeap: the servers built on a heapq priority queue and one server    *)
(*   process: the three-class preemptive-resume simulator                  *)
(*   (CBRS_HE_WaitTime_Preemption.py, variant "HE") and the two-class     *)
(*   non-preemptive M/D/1 simulator (MD1_NP_Two_Class.py, variant "MD1"). *)
(* SpecRes: the simulators built on simpy.PreemptiveResource with one      *)
(*   process per job: CBRS_WaitTime_Preemption_Sim.py (variant "RES") and *)
(*   the trace-driven 3_mg1_sbd_Model_A_traces.py (variant "SBD").        *)
(* SpecSwo: the two-class simulator with a switchover after each PU busy   *)
(*   period (MM1_Two_Class_Switchover_Per_Class_Sim.py, variant "SWO").    *)
(* SpecNp: the non-preemptive simulators: MD1_NP_Two_Class.py and          *)
(*   MG1_NP_Two_Class.py on simpy.PriorityResource (variant "MGNP").       *)
(* SpecRep: the replications of the main loops of "HE" and "SBD".          *)
(* SpecSplit: "HE" and "MGNP" with PHI drawn from its whole range.         *)
(* SpecTraceSU, SpecDys: the trace-driven simulators with customers, and   *)
(*   the two-tier DySpan 2_mg1_sbd_Model_A_traces.py (variant "DYS").      *)
(* SpecTape: CBRS_WaitTime_Sim_v1.py (variant "V1") and then               *)
(*   CBRS_WaitTime_Sim_v0.py (variant "V0") on the same random draws.      *)
(* SpecLearning: the action learning loops (variants "LRN" and "BR3").     *)
(* Spec: the variants "HE", "MD1", "RES" and "SBD"; the variant is fixed   *)
(*   by the initial state.  The other specifications are introduced with   *)
(*   their variants below.                                                 *)
(***************************************************************************)
EXTENDS Integers, Sequences, FiniteSets

VARIABLES
    variant,      \* which simulator file runs: "HE", "MD1", "RES" or "SBD"
    now,          \* env.now
    evq,          \* the environment's event list, in dispatch order
    done,         \* env.run(until=SIM_TIME) has returned
    t_start,      \* T_START, the warm-up cutoff
    items,        \* PriorityQueue.items
    idle,         \* self.idle
    next,         \* self.next, the job in service
    serv_start,   \* provider's local serv_start
    prov_pc,      \* where the server process is suspended
    server_wakeup,\* self.server_wakeup: "awaited" when the server process waits
                  \* on this very event object, "fresh" when nobody does
    ncust, ninc,  \* arrivals generated so far by each generator
    w, n, p,      \* per-class accumulators
    lastDone,     \* history: the job whose service ran to its end last
    lastPush,     \* history: time of the last push that found the server suspended
    procs,        \* RES: the provider processes, one per job, in creation order
    users,        \* RES: server.users, the requests that hold the server
    put_queue,    \* RES: server.put_queue, the waiting requests, sorted by key
    crashed,      \* RES: env.run() was left by an exception
    hist,         \* history: per-class counts of arrivals, completions,
                  \* preemptions and higher-priority arrivals during service
    GUperiod,     \* EXC: self.GUperiod, a GU busy period is under way
    Setup,        \* EXC: self.Setup, the server is in the setup phase
    IN_ARRIVALS,  \* TRC: the trace of interarrival (on) periods
    IN_SERVICE,   \* TRC: the trace of service (off) periods
    pu_i,         \* TRC: the index i of arrivals_PU, counted from 0
    Waits,        \* RES: Waits[k], the per-class mean waits of the run, each
                  \* kept as the quotient num/den that the division computes
    cfg,          \* CFG: the parameters a script is configured with
    cfg_pc,       \* CFG: how far the script has got
    PUperiod,     \* SWO: self.PUperiod, a PU busy period is under way
    Switchover,   \* SWO: self.Switchover, the server is in a switchover
    PUcount,      \* SWO: self.PUcount, the count of primary users present
    rep_k,        \* the index k of the main loop: the replicate under way
    PHI,          \* HE, MGNP: PHI, the fraction of customers in the higher
                  \* class, in units of 1/PhiSteps
    tape,         \* V1, V0: the values the random number generator returns,
                  \* in the order the generators of the arrivals draw them
    ends,         \* V1, V0, history: the completions of the run, each as
                  \* <<class, arrival time, completion time>>
    first,        \* V0, history: the completions and the accumulators with
                  \* which the run of V1 on the same tape ended
    PHIsim,       \* LRN: PHIsim, the value of PHI each iteration of the
                  \* round proposes, in units of 1/LearnScale
    round,        \* LRN: the index of the round under way
    DP,           \* LRN, BR3: DP, the cost of the higher class in the last
                  \* simulation
    DG            \* LRN, BR3: DG, the cost of the lower class in the last
                  \* simulation

hvars == <<items, idle, next, serv_start, prov_pc, server_wakeup, lastPush>>

rvars == <<procs, users, put_queue, crashed>>

svars == <<GUperiod, Setup>>

tvars == <<IN_ARRIVALS, IN_SERVICE, pu_i>>

cvars == <<cfg, cfg_pc>>

wvars == <<PUperiod, Switchover, PUcount>>

lvars == <<PHIsim, round, DP, DG>>

xvars == <<tape, ends, first, lvars>>

vars == <<variant, now, evq, done, t_start, ncust, ninc, w, n, p, lastDone,
          hvars, rvars, hist, svars, tvars, Waits, cvars, wvars, rep_k, PHI, xvars>>

(***************************************************************************)
(* Bounds of the model.                                                    *)
(***************************************************************************)
SIM_TIME == 6       \* horizon of a run, in ticks
MaxGap == 3         \* interarrival times are drawn from 1..MaxGap
MaxServ == 3        \* sampled service times are 1 tick or MaxServ ticks
MaxCust == 2        \* the customer generator is followed for MaxCust arrivals
MaxInc == 1         \* the incumbent generator is followed for MaxInc arrivals
MaxSetup == 2       \* a setup lasts 1..MaxSetup ticks
MaxTrace == 2       \* a trace has 1..MaxTrace entries
MaxRate == 3        \* CFG: rates are drawn from 1..MaxRate
ITERATIONS == 2     \* the main loop is followed for ITERATIONS replicates
PhiSteps == 2       \* PHI and the random draws are multiples of 1/PhiSteps

SERV_TIME == 2      \* MD1: the deterministic service time 1/MU, in ticks

Gaps == 1..MaxGap
ServTimes == {1, MaxServ}
SetupTimes == 1..MaxSetup
PhiValues == 0..PhiSteps
\* np.random.rand() returns a number of the half-open interval [0,1)
Rand == 0..(PhiSteps - 1)

\* The two simulators without preemption are followed for two more arrivals
\* than the others, so that jobs of both classes wait while a third is served.
NpArrivals == MaxCust + 2
\* T_START = FRAC*SIM_TIME; a cutoff inside the run and one at the horizon
WarmUp == SIM_TIME \div 3
TStarts == {WarmUp, SIM_TIME}

URGENT == 0
NORMAL == 1

NoJob == [priority |-> -1, entry |-> 0, service |-> 0, preemptions |-> 0,
          arr0 |-> 0, orig |-> 0, got |-> 0, npre |-> 0, qin |-> 0, waited |-> 0]
NoDone == [priority |-> -1, arr0 |-> 0, orig |-> 0, got |-> 0, npre |-> 0,
           waited |-> 0, at |-> 0, counted |-> FALSE]

\* The parameters of a run whose script is not followed
NoCfg == [file |-> "none"]

NoTape == [cust |-> <<>>, inc |-> <<>>]

NoFirst == [jobs |-> {}, w |-> <<>>, n |-> <<>>]

\* Waits = np.zeros((ITERATIONS,3)): a row of Waits before its run
NoWaits == [c \in 0..2 |-> [num |-> 0, den |-> 1]]

Zero3 == [c \in 0..2 |-> 0]

\* History counters: nothing has happened yet.
Hist0 == [arrivals |-> Zero3, completed |-> Zero3, preempted |-> Zero3,
          higher |-> Zero3]

\* A job of class c arrives, completes, leaves the server unfinished.
Arrived(h, c) == [h EXCEPT !.arrivals[c] = @ + 1]

Departed(h, c) == [h EXCEPT !.completed[c] = @ + 1]

Displaced(h, c) == [h EXCEPT !.preempted[c] = @ + 1]

(***************************************************************************)
(* The event list.  simpy orders events by (time, priority, insertion      *)
(* number); the list is kept in that order, so a new event goes after      *)
(* every event of the same time and priority.  An event that is           *)
(* dispatched without effect (nobody waits for it, or it is due after the  *)
(* run has stopped) is left out of the list.                               *)
(***************************************************************************)
Event(t, u, k) == [t |-> t, u |-> u, k |-> k, j |-> 0]

\* In the CAL runs the generators stop after MaxCust and MaxInc arrivals and
\* the run is long enough for the server to finish all the work they bring:
\* the last arrival is at MaxCust * MaxGap at the latest.
DrainTime == MaxCust * MaxGap + (MaxCust + MaxInc) * MaxServ + 1

\* The simulators with a setup phase: the exceptional-service one ("EXC"),
\* MM1_Two_Class_Setup_Sim_v3_setup_fraction_service_rate.py ("V3") and the
\* one with switchovers, MM1_Two_Class_Switchover_Per_Class_Sim.py ("SWO").
SetupFamily == {"EXC", "V3", "SWO"}

\* The pair of simulators that are run on one tape: CBRS_WaitTime_Sim_v1.py
\* ("V1") and CBRS_WaitTime_Sim_v0.py ("V0")
TapeFamily == {"V1", "V0"}

\* CBRS_WaitTime_Sim_v1.py is CBRS_HE_WaitTime_Preemption.py without the count
\* of preemptions: its tuples are (priority, entry, service) and it has no
\* self.p, so in its runs the field preemptions and p are history
HeFamily == {"HE", "V1"}

\* CBRS_WaitTime_Sim_v0.py is CBRS_WaitTime_Preemption_Sim.py without the count
\* of preemptions; in its runs p is history
CbrsFamily == {"RES", "V0"}

\* The values a generator of arrivals may draw for field f of its k-th
\* arrival: any value of all, or in a run on a tape the value written there
Drawn(stream, k, f, all) ==
    IF variant \in TapeFamily /\ k <= Len(stream) THEN {stream[k][f]} ELSE all

\* History: the completions of the run on a tape, with that of job at now'
Ended(job) ==
    IF variant \in TapeFamily
    THEN ends \cup {<<job.priority, job.arr0, now'>>}
    ELSE ends

\* Their runs last long enough for a job to complete after a preemption and
\* the setups around it.
SetupRunEnd == SIM_TIME + MaxServ

\* env.run(until=...): the time at which the run stops
RunEnd ==
    IF variant = "CAL" THEN DrainTime
    ELSE IF variant \in SetupFamily THEN SetupRunEnd
    ELSE SIM_TIME

\* An event of the process that serves job j (resource-based simulators).
JobEvent(t, u, k, j) == [t |-> t, u |-> u, k |-> k, j |-> j]

Before(a, b) == a.t < b.t \/ (a.t = b.t /\ a.u <= b.u)

RECURSIVE Insert(_, _)
Insert(q, e) ==
    IF q = <<>> THEN <<e>>
    ELSE IF Before(Head(q), e) THEN <<Head(q)>> \o Insert(Tail(q), e)
    ELSE <<e>> \o q

\* env.schedule.  The run stops at SIM_TIME before any other event of that
\* time, so an event due at SIM_TIME or later is never dispatched either.
Schedule(q, e) == IF e.t >= RunEnd /\ e.k # "stop" THEN q ELSE Insert(q, e)

Timeout(q, delay, k) == Schedule(q, Event(now' + delay, NORMAL, k))

Cancel(q, k) == SelectSeq(q, LAMBDA e : e.k # k)

Quiescent == done \/ evq = <<>> \/ Head(evq).t > now

(***************************************************************************)
(* PriorityQueue: heapq on tuples (priority, entry, service, preemptions), *)
(* compared lexicographically.  pop returns the least tuple; the heap is   *)
(* kept as the sorted sequence of its tuples.  arr0, orig, got and npre    *)
(* are history fields that the comparison does not read.                   *)
(***************************************************************************)
TupleLess(a, b) ==
    \/ a.priority < b.priority
    \/ a.priority = b.priority /\ a.entry < b.entry
    \/ a.priority = b.priority /\ a.entry = b.entry /\ a.service < b.service
    \/ a.priority = b.priority /\ a.entry = b.entry /\ a.service = b.service
       /\ a.preemptions < b.preemptions

RECURSIVE push(_, _)
push(q, j) ==
    IF q = <<>> THEN <<j>>
    ELSE IF TupleLess(j, Head(q)) THEN <<j>> \o q
    ELSE <<Head(q)>> \o push(Tail(q), j)

pop(q) == Head(q)

empty(q) == q = <<>>

NewJob(prio, arrival, serv) ==
    [priority |-> prio, entry |-> arrival, service |-> serv, preemptions |-> 0,
     arr0 |-> arrival, orig |-> serv, got |-> 0, npre |-> 0,
     qin |-> arrival, waited |-> 0]


(***************************************************************************)
(* Pieces of the heap-based simulators that the actions below share.       *)
(***************************************************************************)

\* The head of the event list is an event of kind k: env.step() takes it.
Dispatch(k) ==
    /\ ~done
    /\ evq # <<>>
    /\ Head(evq).k = k
    /\ now' = Head(evq).t

\* Faulty variant of Recorded: the cutoff itself is counted (>= for >).
RecordedFromCutoff(t) == t >= t_start

\* if (env.now > T_START): the statistics are recorded
Recorded(t) == t > t_start

\* Faulty variant of CustPreempts: an arrival of the class in service interrupts too.
CustPreemptsEqual(priority) == priority <= next.priority

\* Faulty variant of CustPreempts: an arrival of any other class interrupts (!= for <).
CustPreemptsOtherClass(priority) == priority # next.priority

\* Faulty variant of CustPreempts: every customer arrival interrupts a busy server.
CustPreemptsAlways(priority) == TRUE

\* elif priority < self.next[0]: the customer arrival interrupts the server
CustPreempts(priority) == priority < next.priority

\* Faulty variant of IncPreempts: only the general class gives way to an incumbent.
IncPreemptsGeneralOnly == next.priority > 1

\* elif self.next[0] > 0: the incumbent arrival interrupts the server
IncPreempts == next.priority > 0

\* Faulty variant of Succeed: the wake-up event is replaced before it is triggered,
\* so the event that succeeds is one nobody waits on.
SucceedReplaced(q) == q

\* self.server_wakeup.succeed(): the event is scheduled at the current time;
\* the server process is its only possible waiter.
Succeed(q) ==
    IF server_wakeup = "awaited"
    THEN Schedule(q, Event(now', NORMAL, "wakeup"))
    ELSE q

\* Faulty variants of Requeued: the job restarts with its whole service; the job is
\* filed under the time of its preemption; the preemption is not counted.
RequeuedRestart(job, elapsed) ==
    [job EXCEPT !.preemptions = @ + 1]

RequeuedAtBack(job, elapsed) ==
    [job EXCEPT !.entry = now', !.service = @ - elapsed, !.preemptions = @ + 1]

RequeuedUncounted(job, elapsed) ==
    [job EXCEPT !.service = @ - elapsed]

\* Faulty variant of Requeued: the time since the arrival of the job is deducted.
RequeuedLessFlowTime(job, elapsed) ==
    [job EXCEPT !.service = @ - (now' - job.entry), !.preemptions = @ + 1]

\* Faulty variant of Requeued: the preempted job is put back in the lowest class.
RequeuedDemoted(job, elapsed) ==
    [job EXCEPT !.priority = 2, !.service = @ - elapsed, !.preemptions = @ + 1]

\* self.q.push(next[0], next[1], next[2]-(env.now-serv_start), next[3]+1)
Requeued(job, elapsed) ==
    [job EXCEPT !.service = @ - elapsed, !.preemptions = @ + 1]

\* History of a job that leaves the server unfinished after elapsed ticks.
Interrupted(job, elapsed) ==
    [job EXCEPT !.got = @ + elapsed, !.npre = @ + 1, !.qin = now']

\* History of a job that is given the server: the interval it spent in the
\* queue since it was put there is added to its waiting time.
Pulled(job) == [job EXCEPT !.waited = @ + (now' - job.qin)]

\* A job of class priority arrives in the heap-based server: it counts as an
\* arrival, and as a higher-priority arrival during the service of the class
\* in service when it outranks that class.
HeapArrival(priority) ==
    hist' = IF prov_pc = "serving" /\ priority < next.priority
            THEN [Arrived(hist, priority) EXCEPT !.higher[next.priority] = @ + 1]
            ELSE Arrived(hist, priority)

\* if self.idle: wake the server, else interrupt it when the arrival outranks
\* the job in service.  q is the event list without the dispatched event.
Submit(q, preempts) ==
    /\ lastPush' = IF prov_pc = "sleep" THEN now' ELSE lastPush
    /\ IF idle
       THEN /\ evq' = Succeed(q)
            /\ server_wakeup' = "fresh"
       ELSE /\ evq' = IF preempts
                      THEN Schedule(q, Event(now', URGENT, "intr"))
                      ELSE q
            /\ server_wakeup' = server_wakeup

\* self.next = self.q.pop(); self.idle = False; serv_start = env.now;
\* yield env.timeout(self.next[2])
ServeNext(q, ev) ==
    /\ next' = Pulled(pop(q))
    /\ items' = Tail(q)
    /\ idle' = FALSE
    /\ serv_start' = now'
    /\ evq' = Timeout(ev, pop(q).service, "serv")
    /\ prov_pc' = "serving"
    /\ server_wakeup' = server_wakeup

\* Faulty variant of ServerLoop: the server waits for a wake-up after every job,
\* whether or not the queue is empty.
ServerLoopAlwaysWaits(q, ev) ==
    /\ idle' = TRUE
    /\ prov_pc' = "sleep"
    /\ server_wakeup' = "awaited"
    /\ items' = q
    /\ evq' = ev
    /\ UNCHANGED <<next, serv_start>>

\* The top of the server loop: self.idle = True; if self.q.empty(): yield
\* self.server_wakeup; otherwise the next job is served at once.
ServerLoop(q, ev) ==
    IF empty(q)
    THEN /\ idle' = TRUE
         /\ prov_pc' = "sleep"
         /\ server_wakeup' = "awaited"
         /\ items' = q
         /\ evq' = ev
         /\ UNCHANGED <<next, serv_start>>
    ELSE ServeNext(q, ev)

\* Faulty variant of FlowTime: the time since the job was last put in the queue.
FlowTimeSinceRequeue(job) == now' - job.qin

\* env.now-self.next[1]: the time since the job's arrival
FlowTime(job) == now' - job.entry

\* The bookkeeping of a service that ran to its end.
Finish(job, quantum) ==
    /\ lastDone' = [priority |-> job.priority, arr0 |-> job.arr0,
                    orig |-> job.orig, got |-> job.got + quantum,
                    npre |-> job.npre, waited |-> job.waited,
                    at |-> now', counted |-> Recorded(now')]
    /\ IF Recorded(now')
       THEN /\ w' = [w EXCEPT ![job.priority] = @ + FlowTime(job)]
            /\ n' = [n EXCEPT ![job.priority] = @ + 1]
            /\ p' = [p EXCEPT ![job.priority] = @ + job.preemptions]
       ELSE UNCHANGED <<w, n, p>>

(***************************************************************************)
(* CBRS_HE_WaitTime_Preemption.py: three classes, preemptive resume.       *)
(***************************************************************************)
InitHEWith(file, phis, tapes) ==
    /\ variant = file
    /\ now = 0
    /\ evq = << Event(0, URGENT, "init_cust"), Event(0, URGENT, "init_inc"),
                Event(0, URGENT, "init_prov"), Event(SIM_TIME, URGENT, "stop") >>
    /\ done = FALSE
    /\ t_start \in TStarts
    /\ items = <<>>
    /\ idle = TRUE
    /\ next = NoJob
    /\ serv_start = 0
    /\ prov_pc = "init"
    /\ server_wakeup = "fresh"
    /\ ncust = 0 /\ ninc = 0
    /\ w = Zero3 /\ n = Zero3 /\ p = Zero3
    /\ lastDone = NoDone
    /\ lastPush = -1
    /\ procs = <<>> /\ users = <<>> /\ put_queue = <<>> /\ crashed = FALSE
    /\ hist = Hist0
    /\ GUperiod = FALSE /\ Setup = FALSE
    /\ IN_ARRIVALS = <<>> /\ IN_SERVICE = <<>> /\ pu_i = 0
    /\ Waits = NoWaits
    /\ cfg = NoCfg /\ cfg_pc = "none"
    /\ PUperiod = FALSE /\ Switchover = FALSE /\ PUcount = 0
    /\ rep_k = 0
    /\ PHI \in phis
    /\ tape \in tapes /\ ends = {} /\ first = NoFirst
    /\ PHIsim = <<>> /\ round = 0 /\ DP = 0 /\ DG = 0

\* A run of the main loop with PHI strictly between 0 and 1
InitHE == InitHEWith("HE", {1}, {NoTape})

\* custarrivals up to its first yield
CustStart ==
    /\ variant \in HeFamily
    /\ Dispatch("init_cust")
    /\ \E d \in Drawn(tape.cust, 1, "gap", Gaps) : evq' = Timeout(Tail(evq), d, "cust")
    /\ UNCHANGED <<variant, done, t_start, items, idle, next, serv_start, prov_pc,
                   server_wakeup, ncust, ninc, w, n, p, lastDone, lastPush>>
    /\ UNCHANGED rvars
    /\ UNCHANGED hist
    /\ UNCHANGED svars
    /\ UNCHANGED tvars
    /\ UNCHANGED Waits
    /\ UNCHANGED cvars
    /\ UNCHANGED wvars
    /\ UNCHANGED rep_k
    /\ UNCHANGED PHI
    /\ UNCHANGED xvars

\* decision = 1 - np.random.rand(), a number of (0,1]; r is the value of rand()
HeDecision(r) == PhiSteps - r

\* if decision <= PHI: priority = 1, else: priority = 2
HePriority(decision) == IF decision <= PHI THEN 1 ELSE 2

\* custarrivals from the arrival of a customer to the next yield
CustArrive ==
    /\ variant \in HeFamily
    /\ Dispatch("cust")
    /\ ncust' = ncust + 1
    /\ \E r \in Drawn(tape.cust, ncust + 1, "r", Rand),
          serv_time \in Drawn(tape.cust, ncust + 1, "serv", ServTimes),
          d \in Drawn(tape.cust, ncust + 2, "gap", Gaps) :
       \E priority \in {HePriority(HeDecision(r))} :
         /\ items' = push(items, NewJob(priority, now', serv_time))
         /\ HeapArrival(priority)
         /\ Submit(IF ncust' < MaxCust THEN Timeout(Tail(evq), d, "cust")
                   ELSE Tail(evq),
                   CustPreempts(priority))
    /\ UNCHANGED <<variant, done, t_start, idle, next, serv_start, prov_pc,
                   ninc, w, n, p, lastDone>>
    /\ UNCHANGED rvars
    /\ UNCHANGED svars
    /\ UNCHANGED tvars
    /\ UNCHANGED Waits
    /\ UNCHANGED cvars
    /\ UNCHANGED wvars
    /\ UNCHANGED rep_k
    /\ UNCHANGED PHI
    /\ UNCHANGED xvars

\* incarrivals up to its first yield
IncStart ==
    /\ variant \in HeFamily
    /\ Dispatch("init_inc")
    /\ \E d \in Drawn(tape.inc, 1, "gap", Gaps) : evq' = Timeout(Tail(evq), d, "inc")
    /\ UNCHANGED <<variant, done, t_start, items, idle, next, serv_start, prov_pc,
                   server_wakeup, ncust, ninc, w, n, p, lastDone, lastPush>>
    /\ UNCHANGED rvars
    /\ UNCHANGED hist
    /\ UNCHANGED svars
    /\ UNCHANGED tvars
    /\ UNCHANGED Waits
    /\ UNCHANGED cvars
    /\ UNCHANGED wvars
    /\ UNCHANGED rep_k
    /\ UNCHANGED PHI
    /\ UNCHANGED xvars

\* incarrivals from the arrival of an incumbent to the next yield
IncArrive ==
    /\ variant \in HeFamily
    /\ Dispatch("inc")
    /\ ninc' = ninc + 1
    /\ \E serv_time \in Drawn(tape.inc, ninc + 1, "serv", ServTimes),
          d \in Drawn(tape.inc, ninc + 2, "gap", Gaps) :
         /\ items' = push(items, NewJob(0, now', serv_time))
         /\ HeapArrival(0)
         /\ Submit(IF ninc' < MaxInc THEN Timeout(Tail(evq), d, "inc")
                   ELSE Tail(evq),
                   IncPreempts)
    /\ UNCHANGED <<variant, done, t_start, idle, next, serv_start, prov_pc,
                   ncust, w, n, p, lastDone>>
    /\ UNCHANGED rvars
    /\ UNCHANGED svars
    /\ UNCHANGED tvars
    /\ UNCHANGED Waits
    /\ UNCHANGED cvars
    /\ UNCHANGED wvars
    /\ UNCHANGED rep_k
    /\ UNCHANGED PHI
    /\ UNCHANGED xvars

\* provider up to its first yield
ProvStart ==
    /\ variant \in HeFamily
    /\ Dispatch("init_prov")
    /\ ServerLoop(items, Tail(evq))
    /\ UNCHANGED <<variant, done, t_start, ncust, ninc, w, n, p, lastDone, lastPush>>
    /\ UNCHANGED rvars
    /\ UNCHANGED hist
    /\ UNCHANGED svars
    /\ UNCHANGED tvars
    /\ UNCHANGED Waits
    /\ UNCHANGED cvars
    /\ UNCHANGED wvars
    /\ UNCHANGED rep_k
    /\ UNCHANGED PHI
    /\ UNCHANGED xvars

\* provider resumed by the wake-up event it waits on
ProvWake ==
    /\ variant \in HeFamily
    /\ Dispatch("wakeup")
    /\ prov_pc = "sleep"
    /\ ~empty(items)
    /\ ServeNext(items, Tail(evq))
    /\ UNCHANGED <<variant, done, t_start, ncust, ninc, w, n, p, lastDone, lastPush>>
    /\ UNCHANGED rvars
    /\ UNCHANGED hist
    /\ UNCHANGED svars
    /\ UNCHANGED tvars
    /\ UNCHANGED Waits
    /\ UNCHANGED cvars
    /\ UNCHANGED wvars
    /\ UNCHANGED rep_k
    /\ UNCHANGED PHI
    /\ UNCHANGED xvars

\* provider resumed by the end of the service timeout
ProvComplete ==
    /\ variant \in HeFamily
    /\ Dispatch("serv")
    /\ prov_pc = "serving"
    /\ Finish(next, now' - serv_start)
    /\ hist' = Departed(hist, next.priority)
    /\ ServerLoop(items, Tail(evq))
    /\ UNCHANGED <<variant, done, t_start, ncust, ninc, lastPush>>
    /\ UNCHANGED rvars
    /\ UNCHANGED svars
    /\ UNCHANGED tvars
    /\ UNCHANGED Waits
    /\ UNCHANGED cvars
    /\ UNCHANGED wvars
    /\ UNCHANGED rep_k
    /\ UNCHANGED PHI
    /\ ends' = Ended(next)
    /\ UNCHANGED <<tape, first, lvars>>

\* provider resumed by simpy.Interrupt: the service timeout is abandoned
ProvInterrupt ==
    /\ variant \in HeFamily
    /\ Dispatch("intr")
    /\ prov_pc = "serving"
    /\ ServerLoop(push(items, Interrupted(Requeued(next, now' - serv_start),
                                          now' - serv_start)),
                  Cancel(Tail(evq), "serv"))
    /\ hist' = Displaced(hist, next.priority)
    /\ UNCHANGED <<variant, done, t_start, ncust, ninc, w, n, p, lastDone, lastPush>>
    /\ UNCHANGED rvars
    /\ UNCHANGED svars
    /\ UNCHANGED tvars
    /\ UNCHANGED Waits
    /\ UNCHANGED cvars
    /\ UNCHANGED wvars
    /\ UNCHANGED rep_k
    /\ UNCHANGED PHI
    /\ UNCHANGED xvars

\* env.run(until=SIM_TIME) returns
StopRun ==
    /\ Dispatch("stop")
    /\ done' = TRUE
    /\ evq' = Tail(evq)
    /\ UNCHANGED <<variant, t_start, items, idle, next, serv_start, prov_pc,
                   server_wakeup, ncust, ninc, w, n, p, lastDone, lastPush>>
    /\ UNCHANGED rvars
    /\ UNCHANGED hist
    /\ UNCHANGED svars
    /\ UNCHANGED tvars
    /\ UNCHANGED Waits
    /\ UNCHANGED cvars
    /\ UNCHANGED wvars
    /\ UNCHANGED rep_k
    /\ UNCHANGED PHI
    /\ UNCHANGED xvars

(***************************************************************************)
(* MD1_NP_Two_Class.py: two classes, no preemption, deterministic service. *)
(* The heap holds tuples (priority, entry); the service field of a job is  *)
(* the constant SERV_TIME and the class 2 accumulators stay unused.        *)
(***************************************************************************)
InitMD1 ==
    /\ variant = "MD1"
    /\ now = 0
    /\ evq = << Event(0, URGENT, "init_arrivals"), Event(0, URGENT, "init_server"),
                Event(SIM_TIME, URGENT, "stop") >>
    /\ done = FALSE
    /\ t_start \in TStarts
    /\ items = <<>>
    /\ idle = TRUE
    /\ next = NoJob
    /\ serv_start = 0
    /\ prov_pc = "init"
    /\ server_wakeup = "fresh"
    /\ ncust = 0 /\ ninc = 0
    /\ w = Zero3 /\ n = Zero3 /\ p = Zero3
    /\ lastDone = NoDone
    /\ lastPush = -1
    /\ procs = <<>> /\ users = <<>> /\ put_queue = <<>> /\ crashed = FALSE
    /\ hist = Hist0
    /\ GUperiod = FALSE /\ Setup = FALSE
    /\ IN_ARRIVALS = <<>> /\ IN_SERVICE = <<>> /\ pu_i = 0
    /\ Waits = NoWaits
    /\ cfg = NoCfg /\ cfg_pc = "none"
    /\ PUperiod = FALSE /\ Switchover = FALSE /\ PUcount = 0
    /\ rep_k = 0
    /\ PHI = 0
    /\ tape = NoTape /\ ends = {} /\ first = NoFirst
    /\ PHIsim = <<>> /\ round = 0 /\ DP = 0 /\ DG = 0

\* self.next = self.q.pop(); self.idle = False; yield env.timeout(SERV_TIME)
MD1ServeNext(q, ev) ==
    /\ next' = Pulled(pop(q))
    /\ items' = Tail(q)
    /\ idle' = FALSE
    /\ serv_start' = now'
    /\ evq' = Timeout(ev, SERV_TIME, "serv")
    /\ prov_pc' = "serving"
    /\ server_wakeup' = server_wakeup

\* The top of the server loop of Simulate.server
MD1ServerLoop(q, ev) ==
    IF empty(q)
    THEN /\ idle' = TRUE
         /\ prov_pc' = "sleep"
         /\ server_wakeup' = "awaited"
         /\ items' = q
         /\ evq' = ev
         /\ UNCHANGED <<next, serv_start>>
    ELSE MD1ServeNext(q, ev)

\* Simulate.arrivals up to its first yield
MD1ArrivalsStart ==
    /\ variant = "MD1"
    /\ Dispatch("init_arrivals")
    /\ \E d \in Gaps : evq' = Timeout(Tail(evq), d, "arrival")
    /\ UNCHANGED <<variant, done, t_start, items, idle, next, serv_start, prov_pc,
                   server_wakeup, ncust, ninc, w, n, p, lastDone, lastPush>>
    /\ UNCHANGED rvars
    /\ UNCHANGED hist
    /\ UNCHANGED svars
    /\ UNCHANGED tvars
    /\ UNCHANGED Waits
    /\ UNCHANGED cvars
    /\ UNCHANGED wvars
    /\ UNCHANGED rep_k
    /\ UNCHANGED PHI
    /\ UNCHANGED xvars

\* Simulate.arrivals from the arrival of a packet to the next yield
MD1Arrive ==
    /\ variant = "MD1"
    /\ Dispatch("arrival")
    /\ ncust' = ncust + 1
    /\ \E priority \in {0, 1}, d \in Gaps :
         /\ items' = push(items, NewJob(priority, now', SERV_TIME))
         /\ HeapArrival(priority)
         /\ Submit(IF ncust' < NpArrivals THEN Timeout(Tail(evq), d, "arrival")
                   ELSE Tail(evq),
                   FALSE)
    /\ UNCHANGED <<variant, done, t_start, idle, next, serv_start, prov_pc,
                   ninc, w, n, p, lastDone>>
    /\ UNCHANGED rvars
    /\ UNCHANGED svars
    /\ UNCHANGED tvars
    /\ UNCHANGED Waits
    /\ UNCHANGED cvars
    /\ UNCHANGED wvars
    /\ UNCHANGED rep_k
    /\ UNCHANGED PHI
    /\ UNCHANGED xvars

\* Simulate.server up to its first yield
MD1ServerStart ==
    /\ variant = "MD1"
    /\ Dispatch("init_server")
    /\ MD1ServerLoop(items, Tail(evq))
    /\ UNCHANGED <<variant, done, t_start, ncust, ninc, w, n, p, lastDone, lastPush>>
    /\ UNCHANGED rvars
    /\ UNCHANGED hist
    /\ UNCHANGED svars
    /\ UNCHANGED tvars
    /\ UNCHANGED Waits
    /\ UNCHANGED cvars
    /\ UNCHANGED wvars
    /\ UNCHANGED rep_k
    /\ UNCHANGED PHI
    /\ UNCHANGED xvars

\* Simulate.server resumed by the wake-up event it waits on
MD1ServerWake ==
    /\ variant = "MD1"
    /\ Dispatch("wakeup")
    /\ prov_pc = "sleep"
    /\ ~empty(items)
    /\ MD1ServeNext(items, Tail(evq))
    /\ UNCHANGED <<variant, done, t_start, ncust, ninc, w, n, p, lastDone, lastPush>>
    /\ UNCHANGED rvars
    /\ UNCHANGED hist
    /\ UNCHANGED svars
    /\ UNCHANGED tvars
    /\ UNCHANGED Waits
    /\ UNCHANGED cvars
    /\ UNCHANGED wvars
    /\ UNCHANGED rep_k
    /\ UNCHANGED PHI
    /\ UNCHANGED xvars

\* Simulate.server resumed by the end of the service timeout
MD1ServerComplete ==
    /\ variant = "MD1"
    /\ Dispatch("serv")
    /\ prov_pc = "serving"
    /\ lastDone' = [priority |-> next.priority, arr0 |-> next.arr0,
                    orig |-> next.orig, got |-> now' - serv_start,
                    npre |-> 0, waited |-> next.waited,
                    at |-> now', counted |-> Recorded(now')]
    /\ IF Recorded(now')
       THEN /\ w' = [w EXCEPT ![next.priority] = @ + FlowTime(next)]
            /\ n' = [n EXCEPT ![next.priority] = @ + 1]
       ELSE UNCHANGED <<w, n>>
    /\ p' = p
    /\ hist' = Departed(hist, next.priority)
    /\ MD1ServerLoop(items, Tail(evq))
    /\ UNCHANGED <<variant, done, t_start, ncust, ninc, lastPush>>
    /\ UNCHANGED rvars
    /\ UNCHANGED svars
    /\ UNCHANGED tvars
    /\ UNCHANGED Waits
    /\ UNCHANGED cvars
    /\ UNCHANGED wvars
    /\ UNCHANGED rep_k
    /\ UNCHANGED PHI
    /\ UNCHANGED xvars

(***************************************************************************)
(* CBRS_WaitTime_Preemption_Sim.py: three classes, preemptive resume, on   *)
(* simpy.PreemptiveResource.  Every job is a process of its own            *)
(* (provider) that requests the server with its class as priority.         *)
(* A process record holds the locals of provider (prio, arr, serv,         *)
(* preemptions, start), the time of its pending request, and where it is   *)
(* suspended: "init", "wait" (request queued), "granted" (request          *)
(* triggered, process not yet resumed), "serving", "done", "failed".       *)
(***************************************************************************)
CAPACITY == 1

\* The simulators that give every job a process of its own requesting a
\* PreemptiveResource: CBRS_WaitTime_Preemption_Sim.py ("RES"),
\* 3_mg1_sbd_Model_A_traces.py ("SBD", and "TRC" with its traces spelled
\* out) and Three_Class_No_Adversary.py ("NA"); and MG1_NP_Two_Class.py
\* ("MGNP"), whose resource is a PriorityResource, without preemption.
ResFamily == {"RES", "SBD", "TRC", "NA", "MGNP", "DYS", "V0"}

\* Faulty variant of Preemptive: every resource is a PreemptiveResource.
PreemptiveAlways == TRUE

\* The resource preempts: simpy.PreemptiveResource
Preemptive == variant # "MGNP"

SbdFamily == {"SBD", "TRC"}

\* The simulators whose arrivals_PU walks the two traces: "TRC" and the two-tier
\* DySpan 2_mg1_sbd_Model_A_traces.py ("DYS")
TraceFamily == {"TRC", "DYS"}

\* The classes of the customers: priority = 1 in the two-tier simulator; in a
\* run on a tape the class that decision <= PHI gives for the value on the tape
SUClasses ==
    IF variant = "DYS" THEN {1}
    ELSE IF variant = "V0"
         THEN {HePriority(HeDecision(tape.cust[ncust + 1].r))}
         ELSE {1, 2}

\* SBD: prio -= 0.0001 at every preemption; priorities are counted in units
\* of 0.0001.
PrioUnit == 10000

DoneProc == [priority |-> -1, entry |-> 0, service |-> 0, preemptions |-> 0,
             start |-> 0, time |-> 0, pc |-> "done",
             arr0 |-> 0, orig |-> 0, got |-> 0, npre |-> 0,
             qin |-> 0, waited |-> 0]

NewProc(prio, arr, serv) ==
    [priority |-> prio, entry |-> arr, service |-> serv, preemptions |-> 0,
     start |-> 0, time |-> 0, pc |-> "init",
     arr0 |-> arr, orig |-> serv, got |-> 0, npre |-> 0,
     qin |-> arr, waited |-> 0]

\* Faulty variant of Prio: the priority of a preempted job is left as it was.
PrioUnchanged(pr) == pr.priority * PrioUnit

\* The priority with which a job requests the server, in units of 1/PrioUnit:
\* its class, and in SBD its class less 0.0001 for each preemption so far.
Prio(pr) ==
    IF variant \in SbdFamily
    THEN pr.priority * PrioUnit - pr.preemptions
    ELSE pr.priority * PrioUnit

\* SBD: tmp = ceil(prio), the class under which the job is recorded
Tmp(pr) == (Prio(pr) + PrioUnit - 1) \div PrioUnit

\* The job as the recording at the end of provider sees it
RecordedJob(pr) ==
    IF variant \in SbdFamily THEN [pr EXCEPT !.priority = Tmp(pr)] ELSE pr

\* PriorityRequest.key = (priority, time, not preempt), compared as a tuple;
\* preempt is True for every request.
KeyLess(a, b) ==
    \/ Prio(a) < Prio(b)
    \/ Prio(a) = Prio(b) /\ a.time < b.time

\* SortedQueue.append: append, then a stable sort by key.
RECURSIVE SortedAppend(_, _, _)
SortedAppend(pq, j, pr) ==
    IF pq = <<>> THEN <<j>>
    ELSE IF KeyLess(pr[j], pr[Head(pq)]) THEN <<j>> \o pq
    ELSE <<Head(pq)>> \o SortedAppend(Tail(pq), j, pr)

Without(us, j) == SelectSeq(us, LAMBDA u : u # j)

CancelJob(q, k, j) == SelectSeq(q, LAMBDA e : ~(e.k = k /\ e.j = j))

\* sorted(self.users, key=lambda e: e.key)[-1]: the user with the greatest key
LastUser(us, pr) ==
    CHOOSE u \in {us[i] : i \in DOMAIN us} :
        \A i \in DOMAIN us : ~KeyLess(pr[u], pr[us[i]])

\* BaseResource._trigger_put with PreemptiveResource._do_put: the request at
\* the head of put_queue is tried.  If the resource preempts, the server is
\* full and the user with the greatest key has a greater key than the request,
\* that user is removed
\* and its process interrupted; if there is room the request is granted
\* (users.append, succeed).  _do_put returns None, so the loop stops after
\* the head.  The result is the new users, put_queue, event list and procs.
TriggerPut(us, pq, ev, pr) ==
    IF pq = <<>> THEN [users |-> us, put_queue |-> pq, evq |-> ev, procs |-> pr]
    ELSE
      LET h == Head(pq)
          pre == /\ Preemptive
                 /\ Len(us) >= CAPACITY
                 /\ KeyLess(pr[h], pr[LastUser(us, pr)])
          us1 == IF pre THEN Without(us, LastUser(us, pr)) ELSE us
          ev1 == IF pre
                 THEN Schedule(ev, JobEvent(now', URGENT, "intr", LastUser(us, pr)))
                 ELSE ev
          grant == Len(us1) < CAPACITY
      IN  IF grant
          THEN [users |-> Append(us1, h), put_queue |-> Tail(pq),
                evq |-> Schedule(ev1, JobEvent(now', NORMAL, "granted", h)),
                procs |-> [pr EXCEPT ![h].pc = "granted"]]
          ELSE [users |-> us1, put_queue |-> pq, evq |-> ev1, procs |-> pr]

\* self.server.request(priority=prio): the request is keyed with the current
\* time, appended to put_queue, and the head of the queue is tried.
Request(j, us, pq, ev, pr) ==
    LET pr1 == [pr EXCEPT ![j].time = now', ![j].pc = "wait"]
    IN  TriggerPut(us, SortedAppend(pq, j, pr1), ev, pr1)

\* Leaving the with block: Request.__exit__ releases the request.  The request
\* leaves users at once (if it is still there); the Release event is
\* scheduled and tries the head of put_queue when it is dispatched.
Released(ev) == Schedule(ev, Event(now', NORMAL, "release"))

Apply(r) ==
    /\ users' = r.users
    /\ put_queue' = r.put_queue
    /\ evq' = r.evq
    /\ procs' = r.procs

\* serv -= (self.env.now-start); preemptions += 1
Preempted(pr, elapsed) ==
    [pr EXCEPT !.service = @ - elapsed, !.preemptions = @ + 1]

InitRES ==
    /\ variant = "RES"
    /\ now = 0
    /\ evq = << Event(0, URGENT, "init_cust"), Event(0, URGENT, "init_inc"),
                Event(SIM_TIME, URGENT, "stop") >>
    /\ done = FALSE
    /\ t_start \in TStarts
    /\ items = <<>>
    /\ idle = TRUE
    /\ next = NoJob
    /\ serv_start = 0
    /\ prov_pc = "init"
    /\ server_wakeup = "fresh"
    /\ ncust = 0 /\ ninc = 0
    /\ w = Zero3 /\ n = Zero3 /\ p = Zero3
    /\ lastDone = NoDone
    /\ lastPush = -1
    /\ procs = <<>> /\ users = <<>> /\ put_queue = <<>> /\ crashed = FALSE
    /\ hist = Hist0
    /\ GUperiod = FALSE /\ Setup = FALSE
    /\ IN_ARRIVALS = <<>> /\ IN_SERVICE = <<>> /\ pu_i = 0
    /\ Waits = NoWaits
    /\ cfg = NoCfg /\ cfg_pc = "none"
    /\ PUperiod = FALSE /\ Switchover = FALSE /\ PUcount = 0
    /\ rep_k = 0
    /\ PHI = 0
    /\ tape = NoTape /\ ends = {} /\ first = NoFirst
    /\ PHIsim = <<>> /\ round = 0 /\ DP = 0 /\ DG = 0

\* custarrivals up to its first yield
ResCustStart ==
    /\ variant \in ResFamily
    /\ Dispatch("init_cust")
    /\ \E d \in Drawn(tape.cust, 1, "gap", Gaps) : evq' = Timeout(Tail(evq), d, "cust")
    /\ UNCHANGED <<variant, done, t_start, ncust, ninc, w, n, p, lastDone,
                   hvars, rvars>>
    /\ UNCHANGED hist
    /\ UNCHANGED svars
    /\ UNCHANGED tvars
    /\ UNCHANGED Waits
    /\ UNCHANGED cvars
    /\ UNCHANGED wvars
    /\ UNCHANGED rep_k
    /\ UNCHANGED PHI
    /\ UNCHANGED xvars

\* custarrivals from the arrival of a customer to the next yield: a provider
\* process is created for the job
ResCustArrive ==
    /\ variant \in ResFamily
    /\ Dispatch("cust")
    /\ ncust' = ncust + 1
    /\ \E priority \in SUClasses,
          serv_time \in Drawn(tape.cust, ncust + 1, "serv", ServTimes),
          d \in Drawn(tape.cust, ncust + 2, "gap", Gaps) :
         /\ procs' = Append(procs, NewProc(priority, now', serv_time))
         /\ hist' = Arrived(hist, priority)
         /\ \E q \in {Schedule(Tail(evq),
                               JobEvent(now', URGENT, "init_provider", Len(procs) + 1))} :
              evq' = IF ncust' < MaxCust THEN Timeout(q, d, "cust") ELSE q
    /\ UNCHANGED <<variant, done, t_start, ninc, w, n, p, lastDone, hvars,
                   users, put_queue, crashed>>
    /\ UNCHANGED svars
    /\ UNCHANGED tvars
    /\ UNCHANGED Waits
    /\ UNCHANGED cvars
    /\ UNCHANGED wvars
    /\ UNCHANGED rep_k
    /\ UNCHANGED PHI
    /\ UNCHANGED xvars

\* incarrivals up to its first yield
ResIncStart ==
    /\ variant \in CbrsFamily
    /\ Dispatch("init_inc")
    /\ \E d \in Drawn(tape.inc, 1, "gap", Gaps) : evq' = Timeout(Tail(evq), d, "inc")
    /\ UNCHANGED <<variant, done, t_start, ncust, ninc, w, n, p, lastDone,
                   hvars, rvars>>
    /\ UNCHANGED hist
    /\ UNCHANGED svars
    /\ UNCHANGED tvars
    /\ UNCHANGED Waits
    /\ UNCHANGED cvars
    /\ UNCHANGED wvars
    /\ UNCHANGED rep_k
    /\ UNCHANGED PHI
    /\ UNCHANGED xvars

\* incarrivals from the arrival of an incumbent to the next yield
ResIncArrive ==
    /\ variant \in CbrsFamily
    /\ Dispatch("inc")
    /\ ninc' = ninc + 1
    /\ \E serv_time \in Drawn(tape.inc, ninc + 1, "serv", ServTimes),
          d \in Drawn(tape.inc, ninc + 2, "gap", Gaps) :
         /\ procs' = Append(procs, NewProc(0, now', serv_time))
         /\ hist' = Arrived(hist, 0)
         /\ \E q \in {Schedule(Tail(evq),
                               JobEvent(now', URGENT, "init_provider", Len(procs) + 1))} :
              evq' = IF ninc' < MaxInc THEN Timeout(q, d, "inc") ELSE q
    /\ UNCHANGED <<variant, done, t_start, ncust, w, n, p, lastDone, hvars,
                   users, put_queue, crashed>>
    /\ UNCHANGED svars
    /\ UNCHANGED tvars
    /\ UNCHANGED Waits
    /\ UNCHANGED cvars
    /\ UNCHANGED wvars
    /\ UNCHANGED rep_k
    /\ UNCHANGED PHI
    /\ UNCHANGED xvars

\* SBD: the main loop up to env.run; arrivals_PU is started before
\* arrivals_SU
InitSBD ==
    /\ variant = "SBD"
    /\ now = 0
    /\ evq = << Event(0, URGENT, "init_pu"), Event(0, URGENT, "init_cust"),
                Event(SIM_TIME, URGENT, "stop") >>
    /\ done = FALSE
    /\ t_start \in TStarts
    /\ items = <<>>
    /\ idle = TRUE
    /\ next = NoJob
    /\ serv_start = 0
    /\ prov_pc = "init"
    /\ server_wakeup = "fresh"
    /\ ncust = 0 /\ ninc = 0
    /\ w = Zero3 /\ n = Zero3 /\ p = Zero3
    /\ lastDone = NoDone
    /\ lastPush = -1
    /\ procs = <<>> /\ users = <<>> /\ put_queue = <<>> /\ crashed = FALSE
    /\ hist = Hist0
    /\ GUperiod = FALSE /\ Setup = FALSE
    /\ IN_ARRIVALS = <<>> /\ IN_SERVICE = <<>> /\ pu_i = 0
    /\ Waits = NoWaits
    /\ cfg = NoCfg /\ cfg_pc = "none"
    /\ PUperiod = FALSE /\ Switchover = FALSE /\ PUcount = 0
    /\ rep_k = 0
    /\ PHI = 0
    /\ tape = NoTape /\ ends = {} /\ first = NoFirst
    /\ PHIsim = <<>> /\ round = 0 /\ DP = 0 /\ DG = 0

\* SBD: arrivals_PU up to its first yield; off_time is 0 and on_time is the
\* first entry of the trace
SbdPUStart ==
    /\ variant = "SBD"
    /\ Dispatch("init_pu")
    /\ \E on_time \in Gaps : evq' = Timeout(Tail(evq), on_time, "pu")
    /\ UNCHANGED <<variant, done, t_start, ncust, ninc, w, n, p, lastDone,
                   hvars, rvars>>
    /\ UNCHANGED hist
    /\ UNCHANGED svars
    /\ UNCHANGED tvars
    /\ UNCHANGED Waits
    /\ UNCHANGED cvars
    /\ UNCHANGED wvars
    /\ UNCHANGED rep_k
    /\ UNCHANGED PHI
    /\ UNCHANGED xvars

\* SBD: arrivals_PU from an arrival to the next yield; the next arrival comes
\* off_time + on_time later, off_time being the service time of this one
SbdPUArrive ==
    /\ variant = "SBD"
    /\ Dispatch("pu")
    /\ ninc' = ninc + 1
    /\ \E serv_time \in ServTimes, on_time \in Gaps :
         /\ procs' = Append(procs, NewProc(0, now', serv_time))
         /\ hist' = Arrived(hist, 0)
         /\ \E q \in {Schedule(Tail(evq),
                               JobEvent(now', URGENT, "init_provider", Len(procs) + 1))} :
              evq' = IF ninc' < MaxInc
                     THEN Timeout(q, serv_time + on_time, "pu")
                     ELSE q
    /\ UNCHANGED <<variant, done, t_start, ncust, w, n, p, lastDone, hvars,
                   users, put_queue, crashed>>
    /\ UNCHANGED svars
    /\ UNCHANGED tvars
    /\ UNCHANGED Waits
    /\ UNCHANGED cvars
    /\ UNCHANGED wvars
    /\ UNCHANGED rep_k
    /\ UNCHANGED PHI
    /\ UNCHANGED xvars

\* provider from its start to yield MyTurn
ResProviderStart ==
    /\ variant \in ResFamily
    /\ Dispatch("init_provider")
    /\ Apply(Request(Head(evq).j, users, put_queue, Tail(evq), procs))
    /\ UNCHANGED <<variant, done, t_start, ncust, ninc, w, n, p, lastDone,
                   hvars, crashed>>
    /\ UNCHANGED hist
    /\ UNCHANGED svars
    /\ UNCHANGED tvars
    /\ UNCHANGED Waits
    /\ UNCHANGED cvars
    /\ UNCHANGED wvars
    /\ UNCHANGED rep_k
    /\ UNCHANGED PHI
    /\ UNCHANGED xvars

\* provider resumed with the server: start = now; yield timeout(serv)
ResProviderGranted ==
    /\ variant \in ResFamily
    /\ Dispatch("granted")
    /\ LET j == Head(evq).j IN
         /\ procs[j].pc = "granted"
         /\ procs' = [procs EXCEPT ![j] = [Pulled(@) EXCEPT !.start = now',
                                                             !.pc = "serving"]]
         /\ evq' = Schedule(Tail(evq),
                            JobEvent(now' + procs[j].service, NORMAL, "serv", j))
    /\ UNCHANGED <<variant, done, t_start, ncust, ninc, w, n, p, lastDone,
                   hvars, users, put_queue, crashed>>
    /\ UNCHANGED hist
    /\ UNCHANGED svars
    /\ UNCHANGED tvars
    /\ UNCHANGED Waits
    /\ UNCHANGED cvars
    /\ UNCHANGED wvars
    /\ UNCHANGED rep_k
    /\ UNCHANGED PHI
    /\ UNCHANGED xvars

\* provider resumed by the end of its service timeout: the server is
\* released, the statistics are recorded and the process ends
ResProviderComplete ==
    /\ variant \in ResFamily \ {"NA"}
    /\ Dispatch("serv")
    /\ LET j == Head(evq).j IN
         /\ procs[j].pc = "serving"
         /\ users' = Without(users, j)
         /\ evq' = Released(Tail(evq))
         /\ Finish(RecordedJob(procs[j]), now' - procs[j].start)
         /\ hist' = Departed(hist, procs[j].priority)
         /\ procs' = [procs EXCEPT ![j] = DoneProc]
    /\ UNCHANGED <<variant, done, t_start, ncust, ninc, hvars, put_queue, crashed>>
    /\ UNCHANGED svars
    /\ UNCHANGED tvars
    /\ UNCHANGED Waits
    /\ UNCHANGED cvars
    /\ UNCHANGED wvars
    /\ UNCHANGED rep_k
    /\ UNCHANGED PHI
    /\ ends' = Ended(procs[Head(evq).j])
    /\ UNCHANGED <<tape, first, lvars>>

\* The Release event is dispatched: its callback tries the head of put_queue.
ResRelease ==
    /\ variant \in ResFamily
    /\ Dispatch("release")
    /\ Apply(TriggerPut(users, put_queue, Tail(evq), procs))
    /\ UNCHANGED <<variant, done, t_start, ncust, ninc, w, n, p, lastDone,
                   hvars, crashed>>
    /\ UNCHANGED hist
    /\ UNCHANGED svars
    /\ UNCHANGED tvars
    /\ UNCHANGED Waits
    /\ UNCHANGED cvars
    /\ UNCHANGED wvars
    /\ UNCHANGED rep_k
    /\ UNCHANGED PHI
    /\ UNCHANGED xvars

\* provider interrupted during its service timeout: the timeout is abandoned,
\* the remaining service and the preemption count are updated, the server is
\* released and requested again
ResProviderInterrupt ==
    /\ variant \in ResFamily \ {"DYS"}
    /\ Dispatch("intr")
    /\ LET j == Head(evq).j
           elapsed == now' - procs[j].start
       IN
         /\ procs[j].pc = "serving"
         /\ Apply(Request(j, Without(users, j), put_queue,
                          Released(CancelJob(Tail(evq), "serv", j)),
                          [procs EXCEPT ![j] = Interrupted(Preempted(@, elapsed),
                                                           elapsed)]))
         /\ hist' = Displaced(hist, procs[j].priority)
    /\ UNCHANGED <<variant, done, t_start, ncust, ninc, w, n, p, lastDone,
                   hvars, crashed>>
    /\ UNCHANGED svars
    /\ UNCHANGED tvars
    /\ UNCHANGED Waits
    /\ UNCHANGED cvars
    /\ UNCHANGED wvars
    /\ UNCHANGED rep_k
    /\ UNCHANGED PHI
    /\ UNCHANGED xvars

\* provider interrupted at yield MyTurn, after its request was granted and
\* before it was resumed: the statement is outside the try block, so the
\* Interrupt leaves the generator; the with block releases the request and
\* the process fails
ResProviderInterruptedAtRequest ==
    /\ variant \in ResFamily
    /\ Dispatch("intr")
    /\ LET j == Head(evq).j IN
         /\ procs[j].pc = "granted"
         /\ users' = Without(users, j)
         /\ evq' = Schedule(Released(CancelJob(Tail(evq), "granted", j)),
                            JobEvent(now', NORMAL, "fail", j))
         /\ procs' = [procs EXCEPT ![j].pc = "failed"]
    /\ UNCHANGED <<variant, done, t_start, ncust, ninc, w, n, p, lastDone,
                   hvars, put_queue, crashed>>
    /\ UNCHANGED hist
    /\ UNCHANGED svars
    /\ UNCHANGED tvars
    /\ UNCHANGED Waits
    /\ UNCHANGED cvars
    /\ UNCHANGED wvars
    /\ UNCHANGED rep_k
    /\ UNCHANGED PHI
    /\ UNCHANGED xvars

\* The event of a failed process is dispatched: nobody handles the exception
\* and env.run() raises it.
ResCrash ==
    /\ variant \in ResFamily
    /\ Dispatch("fail")
    /\ crashed' = TRUE
    /\ done' = TRUE
    /\ evq' = Tail(evq)
    /\ UNCHANGED <<variant, t_start, ncust, ninc, w, n, p, lastDone, hvars,
                   procs, users, put_queue>>
    /\ UNCHANGED hist
    /\ UNCHANGED svars
    /\ UNCHANGED tvars
    /\ UNCHANGED Waits
    /\ UNCHANGED cvars
    /\ UNCHANGED wvars
    /\ UNCHANGED rep_k
    /\ UNCHANGED PHI
    /\ UNCHANGED xvars

(***************************************************************************)
(* MM1_Two_Class_Exceptional_Service_Per_Class_Sim.py: two classes, PU (0) *)
(* and GU (1), preemptive resume; the first GU job of a GU period is       *)
(* preceded by a setup.  The heap holds tuples (priority, entry, service). *)
(***************************************************************************)
InitEXC ==
    /\ variant = "EXC"
    /\ now = 0
    /\ evq = << Event(0, URGENT, "init_arrivals"), Event(0, URGENT, "init_server"),
                Event(RunEnd, URGENT, "stop") >>
    /\ done = FALSE
    /\ t_start \in TStarts
    /\ items = <<>>
    /\ idle = TRUE
    /\ next = NoJob
    /\ serv_start = 0
    /\ prov_pc = "init"
    /\ server_wakeup = "fresh"
    /\ ncust = 0 /\ ninc = 0
    /\ w = Zero3 /\ n = Zero3 /\ p = Zero3
    /\ lastDone = NoDone
    /\ lastPush = -1
    /\ procs = <<>> /\ users = <<>> /\ put_queue = <<>> /\ crashed = FALSE
    /\ hist = Hist0
    /\ GUperiod = FALSE /\ Setup = FALSE
    /\ IN_ARRIVALS = <<>> /\ IN_SERVICE = <<>> /\ pu_i = 0
    /\ Waits = NoWaits
    /\ cfg = NoCfg /\ cfg_pc = "none"
    /\ PUperiod = FALSE /\ Switchover = FALSE /\ PUcount = 0
    /\ rep_k = 0
    /\ PHI = 0
    /\ tape = NoTape /\ ends = {} /\ first = NoFirst
    /\ PHIsim = <<>> /\ round = 0 /\ DP = 0 /\ DG = 0

\* self.next = self.q.pop(); self.idle = False; a GU job outside a GU period
\* opens one and waits for the setup first; a PU job closes the GU period;
\* otherwise start = env.now; yield env.timeout(self.next[2]).  gup is the
\* value of self.GUperiod when the pop is reached.
ExcServeNext(q, ev, gup) ==
    /\ next' = Pulled(pop(q))
    /\ items' = Tail(q)
    /\ idle' = FALSE
    /\ server_wakeup' = server_wakeup
    /\ IF pop(q).priority = 1 /\ ~gup
       THEN /\ GUperiod' = TRUE
            /\ Setup' = TRUE
            /\ \E d \in SetupTimes : evq' = Timeout(ev, d, "setup")
            /\ prov_pc' = "setup"
            /\ serv_start' = serv_start
       ELSE /\ GUperiod' = IF pop(q).priority = 0 /\ gup THEN FALSE ELSE gup
            /\ Setup' = Setup
            /\ serv_start' = now'
            /\ evq' = Timeout(ev, pop(q).service, "serv")
            /\ prov_pc' = "serving"

\* The top of the server loop: if self.q.empty(): self.idle = True;
\* yield self.server_wakeup
ExcServerLoop(q, ev, gup) ==
    IF empty(q)
    THEN /\ idle' = TRUE
         /\ prov_pc' = "sleep"
         /\ server_wakeup' = "awaited"
         /\ items' = q
         /\ evq' = ev
         /\ GUperiod' = gup
         /\ UNCHANGED <<next, serv_start, Setup>>
    ELSE ExcServeNext(q, ev, gup)

\* self.q.push(self.next[0], self.next[1], self.next[2]-(env.now-start))
ExcRequeued(job, elapsed) == [job EXCEPT !.service = @ - elapsed]

\* except simpy.Interrupt: if not self.Setup: the job is pushed back with its
\* remaining service; nothing is pushed when self.Setup is set.
ExcPutBack(q, job, elapsed) ==
    IF ~Setup
    THEN push(q, Interrupted(ExcRequeued(job, elapsed), elapsed))
    ELSE q

\* arrivals up to its first yield
ExcArrivalsStart ==
    /\ variant = "EXC"
    /\ Dispatch("init_arrivals")
    /\ \E d \in Gaps : evq' = Timeout(Tail(evq), d, "arrival")
    /\ UNCHANGED <<variant, done, t_start, items, idle, next, serv_start, prov_pc,
                   server_wakeup, ncust, ninc, w, n, p, lastDone, lastPush>>
    /\ UNCHANGED rvars
    /\ UNCHANGED hist
    /\ UNCHANGED svars
    /\ UNCHANGED tvars
    /\ UNCHANGED Waits
    /\ UNCHANGED cvars
    /\ UNCHANGED wvars
    /\ UNCHANGED rep_k
    /\ UNCHANGED PHI
    /\ UNCHANGED xvars

\* arrivals from the arrival of a packet to the next yield
ExcArrive ==
    /\ variant = "EXC"
    /\ Dispatch("arrival")
    /\ ncust' = ncust + 1
    /\ \E priority \in {0, 1}, servlen \in ServTimes, d \in Gaps :
         /\ items' = push(items, NewJob(priority, now', servlen))
         /\ hist' = Arrived(hist, priority)
         /\ Submit(IF ncust' < MaxCust THEN Timeout(Tail(evq), d, "arrival")
                   ELSE Tail(evq),
                   CustPreempts(priority))
    /\ UNCHANGED <<variant, done, t_start, idle, next, serv_start, prov_pc,
                   ninc, w, n, p, lastDone>>
    /\ UNCHANGED rvars
    /\ UNCHANGED svars
    /\ UNCHANGED tvars
    /\ UNCHANGED Waits
    /\ UNCHANGED cvars
    /\ UNCHANGED wvars
    /\ UNCHANGED rep_k
    /\ UNCHANGED PHI
    /\ UNCHANGED xvars

\* server up to its first yield
ExcServerStart ==
    /\ variant = "EXC"
    /\ Dispatch("init_server")
    /\ ExcServerLoop(items, Tail(evq), GUperiod)
    /\ UNCHANGED <<variant, done, t_start, ncust, ninc, w, n, p, lastDone, lastPush>>
    /\ UNCHANGED rvars
    /\ UNCHANGED hist
    /\ UNCHANGED tvars
    /\ UNCHANGED Waits
    /\ UNCHANGED cvars
    /\ UNCHANGED wvars
    /\ UNCHANGED rep_k
    /\ UNCHANGED PHI
    /\ UNCHANGED xvars

\* server resumed by the wake-up event it waits on
ExcServerWake ==
    /\ variant = "EXC"
    /\ Dispatch("wakeup")
    /\ prov_pc = "sleep"
    /\ ~empty(items)
    /\ ExcServeNext(items, Tail(evq), GUperiod)
    /\ UNCHANGED <<variant, done, t_start, ncust, ninc, w, n, p, lastDone, lastPush>>
    /\ UNCHANGED rvars
    /\ UNCHANGED hist
    /\ UNCHANGED tvars
    /\ UNCHANGED Waits
    /\ UNCHANGED cvars
    /\ UNCHANGED wvars
    /\ UNCHANGED rep_k
    /\ UNCHANGED PHI
    /\ UNCHANGED xvars

\* server resumed by the end of the setup timeout: self.Setup = False;
\* start = env.now; yield env.timeout(self.next[2])
ExcSetupDone ==
    /\ variant = "EXC"
    /\ Dispatch("setup")
    /\ prov_pc = "setup"
    /\ Setup' = FALSE
    /\ serv_start' = now'
    /\ evq' = Timeout(Tail(evq), next.service, "serv")
    /\ prov_pc' = "serving"
    /\ UNCHANGED <<variant, done, t_start, items, idle, next, server_wakeup,
                   ncust, ninc, w, n, p, lastDone, lastPush, GUperiod>>
    /\ UNCHANGED rvars
    /\ UNCHANGED hist
    /\ UNCHANGED tvars
    /\ UNCHANGED Waits
    /\ UNCHANGED cvars
    /\ UNCHANGED wvars
    /\ UNCHANGED rep_k
    /\ UNCHANGED PHI
    /\ UNCHANGED xvars

\* server resumed by the end of the service timeout
ExcComplete ==
    /\ variant = "EXC"
    /\ Dispatch("serv")
    /\ prov_pc = "serving"
    /\ Finish(next, now' - serv_start)
    /\ hist' = Departed(hist, next.priority)
    /\ ExcServerLoop(items, Tail(evq), GUperiod)
    /\ UNCHANGED <<variant, done, t_start, ncust, ninc, lastPush>>
    /\ UNCHANGED rvars
    /\ UNCHANGED tvars
    /\ UNCHANGED Waits
    /\ UNCHANGED cvars
    /\ UNCHANGED wvars
    /\ UNCHANGED rep_k
    /\ UNCHANGED PHI
    /\ UNCHANGED xvars

\* server resumed by simpy.Interrupt, in its setup or in its service:
\* self.GUperiod = False, then the job is put back or not
ExcInterrupt ==
    /\ variant = "EXC"
    /\ Dispatch("intr")
    /\ prov_pc \in {"setup", "serving"}
    /\ ExcServerLoop(ExcPutBack(items, next, now' - serv_start),
                     Cancel(Cancel(Tail(evq), "serv"), "setup"), FALSE)
    /\ hist' = Displaced(hist, next.priority)
    /\ UNCHANGED <<variant, done, t_start, ncust, ninc, w, n, p, lastDone, lastPush>>
    /\ UNCHANGED rvars
    /\ UNCHANGED tvars
    /\ UNCHANGED Waits
    /\ UNCHANGED cvars
    /\ UNCHANGED wvars
    /\ UNCHANGED rep_k
    /\ UNCHANGED PHI
    /\ UNCHANGED xvars

(***************************************************************************)
(* CBRS_Customer_Action_Learning.py: three classes, preemptive resume, the *)
(* heap holds tuples (priority, entry, service); the preemptions field of  *)
(* a job stays 0.  custarrivals, incarrivals and provider are those of the *)
(* HE simulator but for the requeue.  The generators stop after MaxCust    *)
(* and MaxInc arrivals and the run goes on until RunEnd.                   *)
(***************************************************************************)
InitCAL ==
    /\ variant = "CAL"
    /\ now = 0
    /\ evq = << Event(0, URGENT, "init_cust"), Event(0, URGENT, "init_inc"),
                Event(0, URGENT, "init_prov"), Event(RunEnd, URGENT, "stop") >>
    /\ done = FALSE
    /\ t_start = WarmUp
    /\ items = <<>>
    /\ idle = TRUE
    /\ next = NoJob
    /\ serv_start = 0
    /\ prov_pc = "init"
    /\ server_wakeup = "fresh"
    /\ ncust = 0 /\ ninc = 0
    /\ w = Zero3 /\ n = Zero3 /\ p = Zero3
    /\ lastDone = NoDone
    /\ lastPush = -1
    /\ procs = <<>> /\ users = <<>> /\ put_queue = <<>> /\ crashed = FALSE
    /\ hist = Hist0
    /\ GUperiod = FALSE /\ Setup = FALSE
    /\ IN_ARRIVALS = <<>> /\ IN_SERVICE = <<>> /\ pu_i = 0
    /\ Waits = NoWaits
    /\ cfg = NoCfg /\ cfg_pc = "none"
    /\ PUperiod = FALSE /\ Switchover = FALSE /\ PUcount = 0
    /\ rep_k = 0
    /\ PHI = 0
    /\ tape = NoTape /\ ends = {} /\ first = NoFirst
    /\ PHIsim = <<>> /\ round = 0 /\ DP = 0 /\ DG = 0

\* Faulty variant of CalPutBack: the preempted job is not put back.
CalPutBackDropped(q, job, elapsed) == q

\* except simpy.Interrupt:
\* self.q.push(next[0], next[1], next[2]-(env.now-serv_start))
CalPutBack(q, job, elapsed) ==
    push(q, Interrupted([job EXCEPT !.service = @ - elapsed], elapsed))

\* custarrivals up to its first yield
CalCustStart ==
    /\ variant = "CAL"
    /\ Dispatch("init_cust")
    /\ \E d \in Gaps : evq' = Timeout(Tail(evq), d, "cust")
    /\ UNCHANGED <<variant, done, t_start, items, idle, next, serv_start, prov_pc,
                   server_wakeup, ncust, ninc, w, n, p, lastDone, lastPush>>
    /\ UNCHANGED rvars
    /\ UNCHANGED hist
    /\ UNCHANGED svars
    /\ UNCHANGED tvars
    /\ UNCHANGED Waits
    /\ UNCHANGED cvars
    /\ UNCHANGED wvars
    /\ UNCHANGED rep_k
    /\ UNCHANGED PHI
    /\ UNCHANGED xvars

\* custarrivals from the arrival of a customer to the next yield
CalCustArrive ==
    /\ variant = "CAL"
    /\ Dispatch("cust")
    /\ ncust' = ncust + 1
    /\ \E priority \in {1, 2}, serv_time \in ServTimes, d \in Gaps :
         /\ items' = push(items, NewJob(priority, now', serv_time))
         /\ HeapArrival(priority)
         /\ Submit(IF ncust' < MaxCust THEN Timeout(Tail(evq), d, "cust")
                   ELSE Tail(evq),
                   CustPreempts(priority))
    /\ UNCHANGED <<variant, done, t_start, idle, next, serv_start, prov_pc,
                   ninc, w, n, p, lastDone>>
    /\ UNCHANGED rvars
    /\ UNCHANGED svars
    /\ UNCHANGED tvars
    /\ UNCHANGED Waits
    /\ UNCHANGED cvars
    /\ UNCHANGED wvars
    /\ UNCHANGED rep_k
    /\ UNCHANGED PHI
    /\ UNCHANGED xvars

\* incarrivals up to its first yield
CalIncStart ==
    /\ variant = "CAL"
    /\ Dispatch("init_inc")
    /\ \E d \in Gaps : evq' = Timeout(Tail(evq), d, "inc")
    /\ UNCHANGED <<variant, done, t_start, items, idle, next, serv_start, prov_pc,
                   server_wakeup, ncust, ninc, w, n, p, lastDone, lastPush>>
    /\ UNCHANGED rvars
    /\ UNCHANGED hist
    /\ UNCHANGED svars
    /\ UNCHANGED tvars
    /\ UNCHANGED Waits
    /\ UNCHANGED cvars
    /\ UNCHANGED wvars
    /\ UNCHANGED rep_k
    /\ UNCHANGED PHI
    /\ UNCHANGED xvars

\* incarrivals from the arrival of an incumbent to the next yield
CalIncArrive ==
    /\ variant = "CAL"
    /\ Dispatch("inc")
    /\ ninc' = ninc + 1
    /\ \E serv_time \in ServTimes, d \in Gaps :
         /\ items' = push(items, NewJob(0, now', serv_time))
         /\ HeapArrival(0)
         /\ Submit(IF ninc' < MaxInc THEN Timeout(Tail(evq), d, "inc")
                   ELSE Tail(evq),
                   IncPreempts)
    /\ UNCHANGED <<variant, done, t_start, idle, next, serv_start, prov_pc,
                   ncust, w, n, p, lastDone>>
    /\ UNCHANGED rvars
    /\ UNCHANGED svars
    /\ UNCHANGED tvars
    /\ UNCHANGED Waits
    /\ UNCHANGED cvars
    /\ UNCHANGED wvars
    /\ UNCHANGED rep_k
    /\ UNCHANGED PHI
    /\ UNCHANGED xvars

\* provider up to its first yield
CalProvStart ==
    /\ variant = "CAL"
    /\ Dispatch("init_prov")
    /\ ServerLoop(items, Tail(evq))
    /\ UNCHANGED <<variant, done, t_start, ncust, ninc, w, n, p, lastDone, lastPush>>
    /\ UNCHANGED rvars
    /\ UNCHANGED hist
    /\ UNCHANGED svars
    /\ UNCHANGED tvars
    /\ UNCHANGED Waits
    /\ UNCHANGED cvars
    /\ UNCHANGED wvars
    /\ UNCHANGED rep_k
    /\ UNCHANGED PHI
    /\ UNCHANGED xvars

\* provider resumed by the wake-up event it waits on
CalProvWake ==
    /\ variant = "CAL"
    /\ Dispatch("wakeup")
    /\ prov_pc = "sleep"
    /\ ~empty(items)
    /\ ServeNext(items, Tail(evq))
    /\ UNCHANGED <<variant, done, t_start, ncust, ninc, w, n, p, lastDone, lastPush>>
    /\ UNCHANGED rvars
    /\ UNCHANGED hist
    /\ UNCHANGED svars
    /\ UNCHANGED tvars
    /\ UNCHANGED Waits
    /\ UNCHANGED cvars
    /\ UNCHANGED wvars
    /\ UNCHANGED rep_k
    /\ UNCHANGED PHI
    /\ UNCHANGED xvars

\* provider resumed by the end of the service timeout
CalProvComplete ==
    /\ variant = "CAL"
    /\ Dispatch("serv")
    /\ prov_pc = "serving"
    /\ Finish(next, now' - serv_start)
    /\ hist' = Departed(hist, next.priority)
    /\ ServerLoop(items, Tail(evq))
    /\ UNCHANGED <<variant, done, t_start, ncust, ninc, lastPush>>
    /\ UNCHANGED rvars
    /\ UNCHANGED svars
    /\ UNCHANGED tvars
    /\ UNCHANGED Waits
    /\ UNCHANGED cvars
    /\ UNCHANGED wvars
    /\ UNCHANGED rep_k
    /\ UNCHANGED PHI
    /\ UNCHANGED xvars

\* provider resumed by simpy.Interrupt: the service timeout is abandoned
CalProvInterrupt ==
    /\ variant = "CAL"
    /\ Dispatch("intr")
    /\ prov_pc = "serving"
    /\ ServerLoop(CalPutBack(items, next, now' - serv_start),
                  Cancel(Tail(evq), "serv"))
    /\ hist' = Displaced(hist, next.priority)
    /\ UNCHANGED <<variant, done, t_start, ncust, ninc, w, n, p, lastDone, lastPush>>
    /\ UNCHANGED rvars
    /\ UNCHANGED svars
    /\ UNCHANGED tvars
    /\ UNCHANGED Waits
    /\ UNCHANGED cvars
    /\ UNCHANGED wvars
    /\ UNCHANGED rep_k
    /\ UNCHANGED PHI
    /\ UNCHANGED xvars

NextCal ==
    \/ CalCustStart \/ CalCustArrive \/ CalIncStart \/ CalIncArrive
    \/ CalProvStart \/ CalProvWake \/ CalProvComplete \/ CalProvInterrupt
    \/ StopRun

SpecCal == InitCAL /\ [][NextCal]_vars

\* The scheduler takes the next event whenever there is one: env.run steps
\* until the stop event.
FairCal == SpecCal /\ WF_vars(NextCal)

(***************************************************************************)
(* Three_Class_No_Adversary.py: three classes from one arrival process,    *)
(* every job a provider process requesting the PreemptiveResource.  The    *)
(* provider is that of RES up to the recording: it keeps service, a copy   *)
(* of serv taken before the loop (the orig field of the job), and adds     *)
(* env.now-(arr-service) to the total of the class.                        *)
(***************************************************************************)
InitNA ==
    /\ variant = "NA"
    /\ now = 0
    /\ evq = << Event(0, URGENT, "init_arrivals"), Event(SIM_TIME, URGENT, "stop") >>
    /\ done = FALSE
    /\ t_start \in TStarts
    /\ items = <<>>
    /\ idle = TRUE
    /\ next = NoJob
    /\ serv_start = 0
    /\ prov_pc = "init"
    /\ server_wakeup = "fresh"
    /\ ncust = 0 /\ ninc = 0
    /\ w = Zero3 /\ n = Zero3 /\ p = Zero3
    /\ lastDone = NoDone
    /\ lastPush = -1
    /\ procs = <<>> /\ users = <<>> /\ put_queue = <<>> /\ crashed = FALSE
    /\ hist = Hist0
    /\ GUperiod = FALSE /\ Setup = FALSE
    /\ IN_ARRIVALS = <<>> /\ IN_SERVICE = <<>> /\ pu_i = 0
    /\ Waits = NoWaits
    /\ cfg = NoCfg /\ cfg_pc = "none"
    /\ PUperiod = FALSE /\ Switchover = FALSE /\ PUcount = 0
    /\ rep_k = 0
    /\ PHI = 0
    /\ tape = NoTape /\ ends = {} /\ first = NoFirst
    /\ PHIsim = <<>> /\ round = 0 /\ DP = 0 /\ DG = 0

\* self.env.now-(arr-service)
NaMeasured(pr) == now' - (pr.entry - pr.orig)

\* arrivals up to its first yield
NaArrivalsStart ==
    /\ variant = "NA"
    /\ Dispatch("init_arrivals")
    /\ \E d \in Gaps : evq' = Timeout(Tail(evq), d, "arrival")
    /\ UNCHANGED <<variant, done, t_start, ncust, ninc, w, n, p, lastDone,
                   hvars, rvars>>
    /\ UNCHANGED hist
    /\ UNCHANGED svars
    /\ UNCHANGED tvars
    /\ UNCHANGED Waits
    /\ UNCHANGED cvars
    /\ UNCHANGED wvars
    /\ UNCHANGED rep_k
    /\ UNCHANGED PHI
    /\ UNCHANGED xvars

\* arrivals from the arrival of a job to the next yield: a provider process
\* is created for the job
NaArrive ==
    /\ variant = "NA"
    /\ Dispatch("arrival")
    /\ ncust' = ncust + 1
    /\ \E priority \in 0..2, serv_time \in ServTimes, d \in Gaps :
         /\ procs' = Append(procs, NewProc(priority, now', serv_time))
         /\ hist' = Arrived(hist, priority)
         /\ \E q \in {Schedule(Tail(evq),
                               JobEvent(now', URGENT, "init_provider", Len(procs) + 1))} :
              evq' = IF ncust' < MaxCust + MaxInc THEN Timeout(q, d, "arrival") ELSE q
    /\ UNCHANGED <<variant, done, t_start, ninc, w, n, p, lastDone, hvars,
                   users, put_queue, crashed>>
    /\ UNCHANGED svars
    /\ UNCHANGED tvars
    /\ UNCHANGED Waits
    /\ UNCHANGED cvars
    /\ UNCHANGED wvars
    /\ UNCHANGED rep_k
    /\ UNCHANGED PHI
    /\ UNCHANGED xvars

\* provider resumed by the end of its service timeout: the server is
\* released, the statistics are recorded and the process ends
NaProviderComplete ==
    /\ variant = "NA"
    /\ Dispatch("serv")
    /\ LET j == Head(evq).j IN
         /\ procs[j].pc = "serving"
         /\ users' = Without(users, j)
         /\ evq' = Released(Tail(evq))
         /\ lastDone' = [priority |-> procs[j].priority, arr0 |-> procs[j].arr0,
                         orig |-> procs[j].orig,
                         got |-> procs[j].got + (now' - procs[j].start),
                         npre |-> procs[j].npre, waited |-> procs[j].waited,
                         at |-> now', counted |-> Recorded(now')]
         /\ IF Recorded(now')
            THEN /\ w' = [w EXCEPT ![procs[j].priority] = @ + NaMeasured(procs[j])]
                 /\ n' = [n EXCEPT ![procs[j].priority] = @ + 1]
            ELSE UNCHANGED <<w, n>>
         /\ hist' = Departed(hist, procs[j].priority)
         /\ procs' = [procs EXCEPT ![j] = DoneProc]
    /\ UNCHANGED <<variant, done, t_start, ncust, ninc, p, hvars, put_queue, crashed>>
    /\ UNCHANGED svars
    /\ UNCHANGED tvars
    /\ UNCHANGED Waits
    /\ UNCHANGED cvars
    /\ UNCHANGED wvars
    /\ UNCHANGED rep_k
    /\ UNCHANGED PHI
    /\ UNCHANGED xvars

\* With one arrival process no request is made between the grant of a request
\* and the resumption of its process, so no provider is interrupted at
\* yield MyTurn in these runs.
NextNa ==
    \/ NaArrivalsStart \/ NaArrive
    \/ ResProviderStart \/ ResProviderGranted \/ NaProviderComplete
    \/ ResRelease \/ ResProviderInterrupt
    \/ StopRun

SpecNa == InitNA /\ [][NextNa]_vars

(***************************************************************************)
(* MM1_Two_Class_Setup_Sim_v3_setup_fraction_service_rate.py: two classes, *)
(* PU (0) and SU (1), preemptive resume, a setup before every service.     *)
(* The heap holds tuples (priority, entry, service, init); jobs have       *)
(* distinct entry times, so the comparison never reaches init.             *)
(***************************************************************************)
InitV3 ==
    /\ variant = "V3"
    /\ now = 0
    /\ evq = << Event(0, URGENT, "init_arrivals"), Event(0, URGENT, "init_server"),
                Event(RunEnd, URGENT, "stop") >>
    /\ done = FALSE
    /\ t_start \in TStarts
    /\ items = <<>>
    /\ idle = TRUE
    /\ next = NoJob
    /\ serv_start = 0
    /\ prov_pc = "init"
    /\ server_wakeup = "fresh"
    /\ ncust = 0 /\ ninc = 0
    /\ w = Zero3 /\ n = Zero3 /\ p = Zero3
    /\ lastDone = NoDone
    /\ lastPush = -1
    /\ procs = <<>> /\ users = <<>> /\ put_queue = <<>> /\ crashed = FALSE
    /\ hist = Hist0
    /\ GUperiod = FALSE /\ Setup = FALSE
    /\ IN_ARRIVALS = <<>> /\ IN_SERVICE = <<>> /\ pu_i = 0
    /\ Waits = NoWaits
    /\ cfg = NoCfg /\ cfg_pc = "none"
    /\ PUperiod = FALSE /\ Switchover = FALSE /\ PUcount = 0
    /\ rep_k = 0
    /\ PHI = 0
    /\ tape = NoTape /\ ends = {} /\ first = NoFirst
    /\ PHIsim = <<>> /\ round = 0 /\ DP = 0 /\ DG = 0

\* self.q.push(priority, env.now, servlen, servlen)
V3Job(prio, arrival, servlen) ==
    [priority |-> prio, entry |-> arrival, service |-> servlen, init |-> servlen,
     preemptions |-> 0,
     arr0 |-> arrival, orig |-> servlen, got |-> 0, npre |-> 0,
     qin |-> arrival, waited |-> 0]

\* Faulty variant of V3Measured: the remaining service is subtracted.
V3MeasuredRemaining(job) == now' - (job.entry + job.service)

\* env.now - (self.next[1] + self.next[3])
V3Measured(job) == now' - (job.entry + job.init)

\* Faulty variant of V3PutBack: the time since start is deducted in the setup too.
V3PutBackDeducting(q, job, inSetup, elapsed) ==
    push(q, Interrupted([job EXCEPT !.service = @ - elapsed], elapsed))

\* except simpy.Interrupt: the job goes back as it was when the setup is
\* interrupted, with its service reduced by the time served otherwise
V3PutBack(q, job, inSetup, elapsed) ==
    IF inSetup
    THEN push(q, Interrupted(job, 0))
    ELSE push(q, Interrupted([job EXCEPT !.service = @ - elapsed], elapsed))

\* self.next = self.q.pop(); inSetup = True; yield env.timeout(setup time).
\* idl is the value of self.idle when the pop is reached.
V3ServeNext(q, ev, idl) ==
    /\ next' = Pulled(pop(q))
    /\ items' = Tail(q)
    /\ idle' = idl
    /\ \E d \in SetupTimes : evq' = Timeout(ev, d, "setup")
    /\ prov_pc' = "setup"
    /\ UNCHANGED <<serv_start, server_wakeup>>

\* The top of the server loop: if self.q.empty(): self.idle = True;
\* yield self.server_wakeup
V3ServerLoop(q, ev) ==
    IF empty(q)
    THEN /\ idle' = TRUE
         /\ prov_pc' = "sleep"
         /\ server_wakeup' = "awaited"
         /\ items' = q
         /\ evq' = ev
         /\ UNCHANGED <<next, serv_start>>
    ELSE V3ServeNext(q, ev, idle)

\* arrivals up to its first yield
V3ArrivalsStart ==
    /\ variant = "V3"
    /\ Dispatch("init_arrivals")
    /\ \E d \in Gaps : evq' = Timeout(Tail(evq), d, "arrival")
    /\ UNCHANGED <<variant, done, t_start, items, idle, next, serv_start, prov_pc,
                   server_wakeup, ncust, ninc, w, n, p, lastDone, lastPush>>
    /\ UNCHANGED rvars
    /\ UNCHANGED hist
    /\ UNCHANGED svars
    /\ UNCHANGED tvars
    /\ UNCHANGED Waits
    /\ UNCHANGED cvars
    /\ UNCHANGED wvars
    /\ UNCHANGED rep_k
    /\ UNCHANGED PHI
    /\ UNCHANGED xvars

\* arrivals from the arrival of a packet to the next yield
V3Arrive ==
    /\ variant = "V3"
    /\ Dispatch("arrival")
    /\ ncust' = ncust + 1
    /\ \E priority \in {0, 1}, servlen \in ServTimes, d \in Gaps :
         /\ items' = push(items, V3Job(priority, now', servlen))
         /\ hist' = Arrived(hist, priority)
         /\ Submit(IF ncust' < MaxCust THEN Timeout(Tail(evq), d, "arrival")
                   ELSE Tail(evq),
                   CustPreempts(priority))
    /\ UNCHANGED <<variant, done, t_start, idle, next, serv_start, prov_pc,
                   ninc, w, n, p, lastDone>>
    /\ UNCHANGED rvars
    /\ UNCHANGED svars
    /\ UNCHANGED tvars
    /\ UNCHANGED Waits
    /\ UNCHANGED cvars
    /\ UNCHANGED wvars
    /\ UNCHANGED rep_k
    /\ UNCHANGED PHI
    /\ UNCHANGED xvars

\* server up to its first yield
V3ServerStart ==
    /\ variant = "V3"
    /\ Dispatch("init_server")
    /\ V3ServerLoop(items, Tail(evq))
    /\ UNCHANGED <<variant, done, t_start, ncust, ninc, w, n, p, lastDone, lastPush>>
    /\ UNCHANGED rvars
    /\ UNCHANGED hist
    /\ UNCHANGED svars
    /\ UNCHANGED tvars
    /\ UNCHANGED Waits
    /\ UNCHANGED cvars
    /\ UNCHANGED wvars
    /\ UNCHANGED rep_k
    /\ UNCHANGED PHI
    /\ UNCHANGED xvars

\* server resumed by the wake-up event it waits on: self.idle = False
V3ServerWake ==
    /\ variant = "V3"
    /\ Dispatch("wakeup")
    /\ prov_pc = "sleep"
    /\ ~empty(items)
    /\ V3ServeNext(items, Tail(evq), FALSE)
    /\ UNCHANGED <<variant, done, t_start, ncust, ninc, w, n, p, lastDone, lastPush>>
    /\ UNCHANGED rvars
    /\ UNCHANGED hist
    /\ UNCHANGED svars
    /\ UNCHANGED tvars
    /\ UNCHANGED Waits
    /\ UNCHANGED cvars
    /\ UNCHANGED wvars
    /\ UNCHANGED rep_k
    /\ UNCHANGED PHI
    /\ UNCHANGED xvars

\* server resumed by the end of the setup timeout: inSetup = False;
\* start = env.now; yield env.timeout(self.next[2])
V3SetupDone ==
    /\ variant = "V3"
    /\ Dispatch("setup")
    /\ prov_pc = "setup"
    /\ serv_start' = now'
    /\ evq' = Timeout(Tail(evq), next.service, "serv")
    /\ prov_pc' = "serving"
    /\ UNCHANGED <<variant, done, t_start, items, idle, next, server_wakeup,
                   ncust, ninc, w, n, p, lastDone, lastPush>>
    /\ UNCHANGED rvars
    /\ UNCHANGED hist
    /\ UNCHANGED svars
    /\ UNCHANGED tvars
    /\ UNCHANGED Waits
    /\ UNCHANGED cvars
    /\ UNCHANGED wvars
    /\ UNCHANGED rep_k
    /\ UNCHANGED PHI
    /\ UNCHANGED xvars

\* server resumed by the end of the service timeout
V3Complete ==
    /\ variant = "V3"
    /\ Dispatch("serv")
    /\ prov_pc = "serving"
    /\ lastDone' = [priority |-> next.priority, arr0 |-> next.arr0,
                    orig |-> next.orig, got |-> next.got + (now' - serv_start),
                    npre |-> next.npre, waited |-> next.waited,
                    at |-> now', counted |-> Recorded(now')]
    /\ IF Recorded(now')
       THEN /\ w' = [w EXCEPT ![next.priority] = @ + V3Measured(next)]
            /\ n' = [n EXCEPT ![next.priority] = @ + 1]
       ELSE UNCHANGED <<w, n>>
    /\ hist' = Departed(hist, next.priority)
    /\ V3ServerLoop(items, Tail(evq))
    /\ UNCHANGED <<variant, done, t_start, ncust, ninc, p, lastPush>>
    /\ UNCHANGED rvars
    /\ UNCHANGED svars
    /\ UNCHANGED tvars
    /\ UNCHANGED Waits
    /\ UNCHANGED cvars
    /\ UNCHANGED wvars
    /\ UNCHANGED rep_k
    /\ UNCHANGED PHI
    /\ UNCHANGED xvars

\* server resumed by simpy.Interrupt, in its setup or in its service
V3Interrupt ==
    /\ variant = "V3"
    /\ Dispatch("intr")
    /\ prov_pc \in {"setup", "serving"}
    /\ V3ServerLoop(V3PutBack(items, next, prov_pc = "setup", now' - serv_start),
                    Cancel(Cancel(Tail(evq), "serv"), "setup"))
    /\ hist' = Displaced(hist, next.priority)
    /\ UNCHANGED <<variant, done, t_start, ncust, ninc, w, n, p, lastDone, lastPush>>
    /\ UNCHANGED rvars
    /\ UNCHANGED svars
    /\ UNCHANGED tvars
    /\ UNCHANGED Waits
    /\ UNCHANGED cvars
    /\ UNCHANGED wvars
    /\ UNCHANGED rep_k
    /\ UNCHANGED PHI
    /\ UNCHANGED xvars

(***************************************************************************)
(* 3_mg1_sbd_Model_A_traces.py with its traces spelled out ("TRC"):        *)
(* IN_ARRIVALS and IN_SERVICE are read from two files, each of any length  *)
(* from 1 to MaxTrace, and arrivals_PU walks them with the index i.  The   *)
(* same arrivals_PU is in 2_mg1_sbd_Model_A_traces_v3.py (lines 160-173).  *)
(* arrivals_SU does not read the traces and is left out of these runs.     *)
(***************************************************************************)
Traces(vals) == UNION {[1..m -> vals] : m \in 1..MaxTrace}

InitTRCWith(file, started) ==
    /\ variant = file
    /\ now = 0
    /\ evq = started \o << Event(SIM_TIME, URGENT, "stop") >>
    /\ done = FALSE
    /\ t_start \in TStarts
    /\ items = <<>>
    /\ idle = TRUE
    /\ next = NoJob
    /\ serv_start = 0
    /\ prov_pc = "init"
    /\ server_wakeup = "fresh"
    /\ ncust = 0 /\ ninc = 0
    /\ w = Zero3 /\ n = Zero3 /\ p = Zero3
    /\ lastDone = NoDone
    /\ lastPush = -1
    /\ procs = <<>> /\ users = <<>> /\ put_queue = <<>> /\ crashed = FALSE
    /\ hist = Hist0
    /\ GUperiod = FALSE /\ Setup = FALSE
    /\ IN_ARRIVALS \in Traces({1, 2})
    /\ IN_SERVICE \in Traces({1})
    /\ pu_i = 0
    /\ Waits = NoWaits
    /\ cfg = NoCfg /\ cfg_pc = "none"
    /\ PUperiod = FALSE /\ Switchover = FALSE /\ PUcount = 0
    /\ rep_k = 0
    /\ PHI = 0
    /\ tape = NoTape /\ ends = {} /\ first = NoFirst
    /\ PHIsim = <<>> /\ round = 0 /\ DP = 0 /\ DG = 0

\* The runs of arrivals_PU alone
InitTRC == InitTRCWith("TRC", << Event(0, URGENT, "init_pu") >>)

\* The runs of the main loop, which starts arrivals_PU and then arrivals_SU
InitTRCSU ==
    InitTRCWith("TRC", << Event(0, URGENT, "init_pu"), Event(0, URGENT, "init_cust") >>)

\* The main loop of the two-tier DySpan 2_mg1_sbd_Model_A_traces.py
InitDYS ==
    InitTRCWith("DYS", << Event(0, URGENT, "init_pu"), Event(0, URGENT, "init_cust") >>)

\* i = (i+1)%len(IN_SERVICE)
NextIndex(k) == (k + 1) % Len(IN_SERVICE)

\* Faulty variant of PUWait: the next arrival comes on_time after this one.
PUWaitOnTimeOnly(q, k, off_time) ==
    IF k < Len(IN_ARRIVALS)
    THEN Timeout(q, IN_ARRIVALS[k + 1], "pu")
    ELSE Schedule(q, Event(now', NORMAL, "fail"))

\* on_time = IN_ARRIVALS[i]; yield env.timeout(off_time+on_time).  An index
\* past the end of the list raises IndexError: the process fails.
PUWait(q, k, off_time) ==
    IF k < Len(IN_ARRIVALS)
    THEN Timeout(q, off_time + IN_ARRIVALS[k + 1], "pu")
    ELSE Schedule(q, Event(now', NORMAL, "fail"))

\* arrivals_PU up to its first yield: off_time = 0, i = 0
TrcPUStart ==
    /\ variant \in TraceFamily
    /\ Dispatch("init_pu")
    /\ evq' = PUWait(Tail(evq), pu_i, 0)
    /\ UNCHANGED <<variant, done, t_start, ncust, ninc, w, n, p, lastDone,
                   hvars, rvars>>
    /\ UNCHANGED hist
    /\ UNCHANGED svars
    /\ UNCHANGED tvars
    /\ UNCHANGED Waits
    /\ UNCHANGED cvars
    /\ UNCHANGED wvars
    /\ UNCHANGED rep_k
    /\ UNCHANGED PHI
    /\ UNCHANGED xvars

\* arrivals_PU from an arrival to the next yield: serv_time = IN_SERVICE[i],
\* a provider process is created, the index moves on and the next on period
\* is read
TrcPUArrive ==
    /\ variant \in TraceFamily
    /\ Dispatch("pu")
    /\ pu_i < Len(IN_SERVICE)
    /\ ninc' = ninc + 1
    /\ procs' = Append(procs, NewProc(0, now', IN_SERVICE[pu_i + 1]))
    /\ hist' = Arrived(hist, 0)
    /\ pu_i' = NextIndex(pu_i)
    /\ evq' = PUWait(Schedule(Tail(evq),
                              JobEvent(now', URGENT, "init_provider", Len(procs) + 1)),
                     pu_i', IN_SERVICE[pu_i + 1])
    /\ UNCHANGED <<variant, done, t_start, ncust, w, n, p, lastDone, hvars,
                   users, put_queue, crashed>>
    /\ UNCHANGED svars
    /\ UNCHANGED <<IN_ARRIVALS, IN_SERVICE>>
    /\ UNCHANGED Waits
    /\ UNCHANGED cvars
    /\ UNCHANGED wvars
    /\ UNCHANGED rep_k
    /\ UNCHANGED PHI
    /\ UNCHANGED xvars

NextTrace ==
    \/ TrcPUStart \/ TrcPUArrive
    \/ ResProviderStart \/ ResProviderGranted \/ ResProviderComplete
    \/ ResRelease \/ ResCrash
    \/ StopRun

SpecTrace == InitTRC /\ [][NextTrace]_vars

\* DYS: provider interrupted during its service timeout.  The handler runs
\* serv_time -= (env.now-start) and prio -= 0.0001, and then preemption += 1:
\* provider never assigns preemption before, so the statement raises
\* UnboundLocalError.  The exception leaves the generator; the with block
\* releases the request and the process fails.
DysProviderInterrupt ==
    /\ variant = "DYS"
    /\ Dispatch("intr")
    /\ LET j == Head(evq).j
           elapsed == now' - procs[j].start
       IN
         /\ procs[j].pc = "serving"
         /\ users' = Without(users, j)
         /\ evq' = Schedule(Released(CancelJob(Tail(evq), "serv", j)),
                            JobEvent(now', NORMAL, "fail", j))
         /\ procs' = [procs EXCEPT ![j] = [Interrupted(Preempted(@, elapsed), elapsed)
                                             EXCEPT !.pc = "failed"]]
         /\ hist' = Displaced(hist, procs[j].priority)
    /\ UNCHANGED <<variant, done, t_start, ncust, ninc, w, n, p, lastDone,
                   hvars, put_queue, crashed>>
    /\ UNCHANGED svars
    /\ UNCHANGED tvars
    /\ UNCHANGED Waits
    /\ UNCHANGED cvars
    /\ UNCHANGED wvars
    /\ UNCHANGED rep_k
    /\ UNCHANGED PHI
    /\ UNCHANGED xvars

NextDys ==
    \/ TrcPUStart \/ TrcPUArrive
    \/ ResCustStart \/ ResCustArrive
    \/ ResProviderStart \/ ResProviderGranted \/ ResProviderComplete
    \/ ResRelease \/ DysProviderInterrupt \/ ResProviderInterruptedAtRequest
    \/ ResCrash
    \/ StopRun

SpecDys == InitDYS /\ [][NextDys]_vars

\* The trace-driven incumbents together with the customers
NextTraceSU ==
    \/ TrcPUStart \/ TrcPUArrive
    \/ ResCustStart \/ ResCustArrive
    \/ ResProviderStart \/ ResProviderGranted \/ ResProviderComplete
    \/ ResRelease \/ ResProviderInterrupt \/ ResProviderInterruptedAtRequest
    \/ ResCrash
    \/ StopRun

SpecTraceSU == InitTRCSU /\ [][NextTraceSU]_vars

\* RES, main loop after launchSimulation has returned: Waits[k] = w/n, an
\* elementwise division of numpy arrays.  A class with n = 0 is divided like
\* the others (numpy gives nan and a warning, and the loop goes on).
ResReport ==
    /\ variant = "RES"
    /\ done /\ ~crashed
    /\ Waits = NoWaits
    /\ cfg = NoCfg /\ cfg_pc = "none"
    /\ Waits' = [c \in 0..2 |-> [num |-> w[c], den |-> n[c]]]
    /\ UNCHANGED <<variant, now, evq, done, t_start, ncust, ninc, w, n, p, lastDone,
                   hvars, rvars>>
    /\ UNCHANGED hist
    /\ UNCHANGED svars
    /\ UNCHANGED tvars
    /\ UNCHANGED cvars
    /\ UNCHANGED wvars
    /\ UNCHANGED rep_k
    /\ UNCHANGED PHI
    /\ UNCHANGED xvars

(***************************************************************************)
(* The parameter checks at the top of three scripts ("CFG"):               *)
(* MG1_NP_Two_Class.py ("MG1NP"), 2_mg1_sbd_Model_A_lats.py ("LATS") and   *)
(* 3_mg1_sbd_Model_A_traces.py ("SBD2").  Rates are positive integers; K   *)
(* and K_IN take the values 0, 1, 2 (below 1, 1, above 1) and PHI the      *)
(* values -1, 0, 1, 2 (below, at the ends of, and above [0,1]).  A script  *)
(* that passes its checks goes on to its main loop, which creates the      *)
(* environment and runs it.                                                *)
(***************************************************************************)
Rates == 1..MaxRate
RateLists == UNION {[1..m -> Rates] : m \in 1..2}
Ks == 0..2
Phis == -1..2
PhiLists == UNION {[1..m -> Phis] : m \in 1..2}

\* MG1_NP_Two_Class.py: LAM is a list; MU, PHI and K are numbers.
Mg1npConfigs ==
    {[file |-> "MG1NP", LAM |-> lam, MU |-> mu, PHI |-> <<phi>>, K |-> k] :
        lam \in RateLists, mu \in Rates, phi \in Phis, k \in Ks}

\* 2_mg1_sbd_Model_A_lats.py: LAM is a list; there is no PHI.
LatsConfigs ==
    {[file |-> "LATS", LAM |-> lam, MU |-> mu, K |-> k, K_IN |-> kin,
      LAMBDA_IN |-> x[1], MU_IN |-> x[2]] :
        lam \in RateLists, mu \in Rates, k \in Ks, kin \in Ks,
        x \in {1, MaxRate} \X {1, MaxRate}}

\* 3_mg1_sbd_Model_A_traces.py: LAM is a number, PHI a list.
SbdConfigs ==
    {[file |-> "SBD2", LAM |-> <<lam>>, MU |-> mu, K |-> k, PHI |-> phi,
      LAMBDA_IN |-> x[1], MU_IN |-> x[2]] :
        lam \in Rates, mu \in Rates, k \in Ks, phi \in PhiLists,
        x \in {1, MaxRate} \X {1, MaxRate}}

InitCFG ==
    /\ variant = "CFG"
    /\ now = 0
    /\ evq = <<>>
    /\ done = FALSE
    /\ t_start = WarmUp
    /\ items = <<>>
    /\ idle = TRUE
    /\ next = NoJob
    /\ serv_start = 0
    /\ prov_pc = "init"
    /\ server_wakeup = "fresh"
    /\ ncust = 0 /\ ninc = 0
    /\ w = Zero3 /\ n = Zero3 /\ p = Zero3
    /\ lastDone = NoDone
    /\ lastPush = -1
    /\ procs = <<>> /\ users = <<>> /\ put_queue = <<>> /\ crashed = FALSE
    /\ hist = Hist0
    /\ GUperiod = FALSE /\ Setup = FALSE
    /\ IN_ARRIVALS = <<>> /\ IN_SERVICE = <<>> /\ pu_i = 0
    /\ Waits = NoWaits
    /\ cfg \in Mg1npConfigs \cup LatsConfigs \cup SbdConfigs
    /\ cfg_pc = "start"
    /\ PUperiod = FALSE /\ Switchover = FALSE /\ PUcount = 0
    /\ rep_k = 0
    /\ PHI = 0
    /\ tape = NoTape /\ ends = {} /\ first = NoFirst
    /\ PHIsim = <<>> /\ round = 0 /\ DP = 0 /\ DG = 0

\* FM_EFF = (1/MU)*(1+LAMBDA_IN/MU_IN); MU_EFF = 1/FM_EFF; LAM >= MU_EFF,
\* with the quotients cleared (all the rates are positive)
AtLeastMuEff(lam, c) == lam * (c.MU_IN + c.LAMBDA_IN) >= c.MU * c.MU_IN

\* MG1_NP_Two_Class.py lines 38-49: the checks in their order; the result is
\* the check that calls exit(), or "checked"
Mg1npChecks(c) ==
    IF \E l \in DOMAIN c.LAM : c.LAM[l] >= c.MU THEN "exit_unstable"
    ELSE IF c.PHI[1] < 0 \/ c.PHI[1] > 1 THEN "exit_phi"
    ELSE IF c.K < 1 THEN "exit_k"
    ELSE "checked"

\* 2_mg1_sbd_Model_A_lats.py lines 40-92
LatsChecks(c) ==
    IF c.K < 1 THEN "exit_k"
    ELSE IF c.K_IN < 1 THEN "exit_k_in"
    ELSE IF \E l \in DOMAIN c.LAM : AtLeastMuEff(c.LAM[l], c) THEN "exit_unstable"
    ELSE "checked"

\* 3_mg1_sbd_Model_A_traces.py lines 63-73
SbdChecks(c) ==
    IF AtLeastMuEff(c.LAM[1], c) THEN "exit_unstable"
    ELSE IF c.K < 1 THEN "exit_k"
    ELSE "checked"

\* MG1_NP_Two_Class.py: the module-level statements down to the main loop
Mg1npConfigure ==
    /\ variant = "CFG"
    /\ cfg.file = "MG1NP"
    /\ cfg_pc = "start"
    /\ cfg_pc' = Mg1npChecks(cfg)
    /\ UNCHANGED <<variant, now, evq, done, t_start, ncust, ninc, w, n, p, lastDone,
                   hvars, rvars, hist, svars, tvars, Waits, cfg, wvars, rep_k, PHI, xvars>>

\* 2_mg1_sbd_Model_A_lats.py: the module-level statements down to the main loop
LatsConfigure ==
    /\ variant = "CFG"
    /\ cfg.file = "LATS"
    /\ cfg_pc = "start"
    /\ cfg_pc' = LatsChecks(cfg)
    /\ UNCHANGED <<variant, now, evq, done, t_start, ncust, ninc, w, n, p, lastDone,
                   hvars, rvars, hist, svars, tvars, Waits, cfg, wvars, rep_k, PHI, xvars>>

\* 3_mg1_sbd_Model_A_traces.py: the module-level statements down to the main loop
SbdConfigure ==
    /\ variant = "CFG"
    /\ cfg.file = "SBD2"
    /\ cfg_pc = "start"
    /\ cfg_pc' = SbdChecks(cfg)
    /\ UNCHANGED <<variant, now, evq, done, t_start, ncust, ninc, w, n, p, lastDone,
                   hvars, rvars, hist, svars, tvars, Waits, cfg, wvars, rep_k, PHI, xvars>>

\* The main loop is reached: env = simpy.Environment(); ...; env.run(...)
ConfigLaunch ==
    /\ variant = "CFG"
    /\ cfg_pc = "checked"
    /\ cfg_pc' = "running"
    /\ UNCHANGED <<variant, now, evq, done, t_start, ncust, ninc, w, n, p, lastDone,
                   hvars, rvars, hist, svars, tvars, Waits, cfg, wvars, rep_k, PHI, xvars>>

NextConfig == Mg1npConfigure \/ LatsConfigure \/ SbdConfigure \/ ConfigLaunch

SpecConfig == InitCFG /\ [][NextConfig]_vars

(***************************************************************************)
(* MG1_NP_Two_Class.py ("MGNP"): two classes, every job a provider process *)
(* that requests a PriorityResource once, holds it for its service time,   *)
(* records its flow time and releases it.                                  *)
(***************************************************************************)
InitMGNP ==
    /\ variant = "MGNP"
    /\ now = 0
    /\ evq = << Event(0, URGENT, "init_arrivals"), Event(SIM_TIME, URGENT, "stop") >>
    /\ done = FALSE
    /\ t_start = WarmUp
    /\ items = <<>>
    /\ idle = TRUE
    /\ next = NoJob
    /\ serv_start = 0
    /\ prov_pc = "init"
    /\ server_wakeup = "fresh"
    /\ ncust = 0 /\ ninc = 0
    /\ w = Zero3 /\ n = Zero3 /\ p = Zero3
    /\ lastDone = NoDone
    /\ lastPush = -1
    /\ procs = <<>> /\ users = <<>> /\ put_queue = <<>> /\ crashed = FALSE
    /\ hist = Hist0
    /\ GUperiod = FALSE /\ Setup = FALSE
    /\ IN_ARRIVALS = <<>> /\ IN_SERVICE = <<>> /\ pu_i = 0
    /\ Waits = NoWaits
    /\ cfg = NoCfg /\ cfg_pc = "none"
    /\ PUperiod = FALSE /\ Switchover = FALSE /\ PUcount = 0
    /\ rep_k = 0
    /\ PHI \in PhiValues
    /\ tape = NoTape /\ ends = {} /\ first = NoFirst
    /\ PHIsim = <<>> /\ round = 0 /\ DP = 0 /\ DG = 0

\* arrivals up to its first yield
MgnpArrivalsStart ==
    /\ variant = "MGNP"
    /\ Dispatch("init_arrivals")
    /\ \E d \in Gaps : evq' = Timeout(Tail(evq), d, "arrival")
    /\ UNCHANGED <<variant, done, t_start, ncust, ninc, w, n, p, lastDone,
                   hvars, rvars>>
    /\ UNCHANGED hist
    /\ UNCHANGED svars
    /\ UNCHANGED tvars
    /\ UNCHANGED Waits
    /\ UNCHANGED cvars
    /\ UNCHANGED wvars
    /\ UNCHANGED rep_k
    /\ UNCHANGED PHI
    /\ UNCHANGED xvars

\* decision = np.random.rand(), a number of [0,1); r is the value of rand()
MgnpDecision(r) == r

\* if decision <= PHI: priority = 0, else: priority = 1
MgnpPriority(decision) == IF decision <= PHI THEN 0 ELSE 1

\* arrivals from the arrival of a customer to the next yield: a provider
\* process is created for the customer
MgnpArrive ==
    /\ variant = "MGNP"
    /\ Dispatch("arrival")
    /\ ncust' = ncust + 1
    /\ \E r \in Rand, serv_time \in ServTimes, d \in Gaps :
       \E priority \in {MgnpPriority(MgnpDecision(r))} :
         /\ procs' = Append(procs, NewProc(priority, now', serv_time))
         /\ hist' = Arrived(hist, priority)
         /\ \E q \in {Schedule(Tail(evq),
                               JobEvent(now', URGENT, "init_provider", Len(procs) + 1))} :
              evq' = IF ncust' < NpArrivals THEN Timeout(q, d, "arrival") ELSE q
    /\ UNCHANGED <<variant, done, t_start, ninc, w, n, p, lastDone, hvars,
                   users, put_queue, crashed>>
    /\ UNCHANGED svars
    /\ UNCHANGED tvars
    /\ UNCHANGED Waits
    /\ UNCHANGED cvars
    /\ UNCHANGED wvars
    /\ UNCHANGED rep_k
    /\ UNCHANGED PHI
    /\ UNCHANGED xvars

\* The two simulators without preemption
InitNp == InitMD1 \/ InitMGNP

NextNp ==
    \/ MD1ArrivalsStart \/ MD1Arrive
    \/ MD1ServerStart \/ MD1ServerWake \/ MD1ServerComplete
    \/ MgnpArrivalsStart \/ MgnpArrive
    \/ ResProviderStart \/ ResProviderGranted \/ ResProviderComplete
    \/ ResRelease
    \/ StopRun

SpecNp == InitNp /\ [][NextNp]_vars

(***************************************************************************)
(* MM1_Two_Class_Switchover_Per_Class_Sim.py ("SWO"): two classes,         *)
(* preemptive resume, a switchover after the busy period of the PU class.  *)
(* The heap holds tuples (priority, entry, service).  The arrivals stop    *)
(* after MaxCust packets and the run goes on until RunEnd.                 *)
(***************************************************************************)
InitSWO ==
    /\ variant = "SWO"
    /\ now = 0
    /\ evq = << Event(0, URGENT, "init_arrivals"), Event(0, URGENT, "init_server"),
                Event(RunEnd, URGENT, "stop") >>
    /\ done = FALSE
    /\ t_start = WarmUp
    /\ items = <<>>
    /\ idle = TRUE
    /\ next = NoJob
    /\ serv_start = 0
    /\ prov_pc = "init"
    /\ server_wakeup = "fresh"
    /\ ncust = 0 /\ ninc = 0
    /\ w = Zero3 /\ n = Zero3 /\ p = Zero3
    /\ lastDone = NoDone
    /\ lastPush = -1
    /\ procs = <<>> /\ users = <<>> /\ put_queue = <<>> /\ crashed = FALSE
    /\ hist = Hist0
    /\ GUperiod = FALSE /\ Setup = FALSE
    /\ IN_ARRIVALS = <<>> /\ IN_SERVICE = <<>> /\ pu_i = 0
    /\ Waits = NoWaits
    /\ cfg = NoCfg /\ cfg_pc = "none"
    /\ PUperiod = FALSE /\ Switchover = FALSE /\ PUcount = 0
    /\ rep_k = 0
    /\ PHI = 0
    /\ tape = NoTape /\ ends = {} /\ first = NoFirst
    /\ PHIsim = <<>> /\ round = 0 /\ DP = 0 /\ DG = 0

\* self.next = self.q.pop(); a PU job outside a PU period opens one;
\* start = env.now; yield env.timeout(self.next[2]).  pup is the value of
\* self.PUperiod when the pop is reached.
SwoServeNext(q, ev, pup) ==
    /\ next' = Pulled(pop(q))
    /\ items' = Tail(q)
    /\ PUperiod' = IF pop(q).priority = 0 /\ ~pup THEN TRUE ELSE pup
    /\ serv_start' = now'
    /\ evq' = Timeout(ev, pop(q).service, "serv")
    /\ prov_pc' = "serving"
    /\ server_wakeup' = server_wakeup

\* The top of the server loop: if self.q.empty(): self.idle = True;
\* yield self.server_wakeup; otherwise the next job is served at once.
SwoServerLoop(q, ev, pup) ==
    IF empty(q)
    THEN /\ idle' = TRUE
         /\ prov_pc' = "sleep"
         /\ server_wakeup' = "awaited"
         /\ items' = q
         /\ evq' = ev
         /\ PUperiod' = pup
         /\ UNCHANGED <<next, serv_start>>
    ELSE /\ idle' = idle
         /\ SwoServeNext(q, ev, pup)

\* The end of a pass of the server loop, after the completion or the
\* interruption of a job: if (self.PUperiod and self.PUcount == 0) the
\* switchover starts; otherwise the loop goes back to its top.  cnt is the
\* value of self.PUcount at that point.
SwoAfterJob(q, ev, cnt) ==
    IF PUperiod /\ cnt = 0
    THEN /\ PUperiod' = FALSE
         /\ Switchover' = TRUE
         /\ \E d \in SetupTimes : evq' = Timeout(ev, d, "switch")
         /\ prov_pc' = "switch"
         /\ items' = q
         /\ UNCHANGED <<idle, next, serv_start, server_wakeup>>
    ELSE /\ Switchover' = Switchover
         /\ SwoServerLoop(q, ev, PUperiod)

\* self.PUcount after a completion: inside if (env.now > T_START),
\* if self.next[0] == 0: self.PUcount -= 1
SwoLeft(cnt, job) ==
    IF Recorded(now') /\ job.priority = 0 THEN cnt - 1 ELSE cnt

\* Faulty variant of SwoPreempts: a GU arrival interrupts the switchover too.
SwoPreemptsAny(priority) == CustPreempts(priority) \/ Switchover

\* elif(priority < self.next[0]) ... elif(self.Switchover and priority == 0):
\* the arrival interrupts the server
SwoPreempts(priority) ==
    CustPreempts(priority) \/ (Switchover /\ priority = 0)

\* arrivals up to its first yield
SwoArrivalsStart ==
    /\ variant = "SWO"
    /\ Dispatch("init_arrivals")
    /\ \E d \in Gaps : evq' = Timeout(Tail(evq), d, "arrival")
    /\ UNCHANGED <<variant, done, t_start, items, idle, next, serv_start, prov_pc,
                   server_wakeup, ncust, ninc, w, n, p, lastDone, lastPush>>
    /\ UNCHANGED rvars
    /\ UNCHANGED hist
    /\ UNCHANGED svars
    /\ UNCHANGED tvars
    /\ UNCHANGED Waits
    /\ UNCHANGED cvars
    /\ UNCHANGED wvars
    /\ UNCHANGED rep_k
    /\ UNCHANGED PHI
    /\ UNCHANGED xvars

\* arrivals from the arrival of a packet to the next yield
SwoArrive ==
    /\ variant = "SWO"
    /\ Dispatch("arrival")
    /\ ncust' = ncust + 1
    /\ \E priority \in {0, 1}, servlen \in ServTimes, d \in Gaps :
         /\ items' = push(items, NewJob(priority, now', servlen))
         /\ hist' = Arrived(hist, priority)
         /\ PUcount' = IF priority = 0 THEN PUcount + 1 ELSE PUcount
         /\ Submit(IF ncust' < MaxCust THEN Timeout(Tail(evq), d, "arrival")
                   ELSE Tail(evq),
                   SwoPreempts(priority))
    /\ UNCHANGED <<variant, done, t_start, idle, next, serv_start, prov_pc,
                   ninc, w, n, p, lastDone>>
    /\ UNCHANGED <<PUperiod, Switchover>>
    /\ UNCHANGED rvars
    /\ UNCHANGED svars
    /\ UNCHANGED tvars
    /\ UNCHANGED Waits
    /\ UNCHANGED cvars
    /\ UNCHANGED rep_k
    /\ UNCHANGED PHI
    /\ UNCHANGED xvars

\* server up to its first yield
SwoServerStart ==
    /\ variant = "SWO"
    /\ Dispatch("init_server")
    /\ SwoServerLoop(items, Tail(evq), PUperiod)
    /\ UNCHANGED <<variant, done, t_start, ncust, ninc, w, n, p, lastDone, lastPush>>
    /\ UNCHANGED <<Switchover, PUcount>>
    /\ UNCHANGED rvars
    /\ UNCHANGED hist
    /\ UNCHANGED svars
    /\ UNCHANGED tvars
    /\ UNCHANGED Waits
    /\ UNCHANGED cvars
    /\ UNCHANGED rep_k
    /\ UNCHANGED PHI
    /\ UNCHANGED xvars

\* server resumed by the wake-up event it waits on: self.idle = False, then
\* the pop
SwoServerWake ==
    /\ variant = "SWO"
    /\ Dispatch("wakeup")
    /\ prov_pc = "sleep"
    /\ ~empty(items)
    /\ idle' = FALSE
    /\ SwoServeNext(items, Tail(evq), PUperiod)
    /\ UNCHANGED <<variant, done, t_start, ncust, ninc, w, n, p, lastDone, lastPush>>
    /\ UNCHANGED <<Switchover, PUcount>>
    /\ UNCHANGED rvars
    /\ UNCHANGED hist
    /\ UNCHANGED svars
    /\ UNCHANGED tvars
    /\ UNCHANGED Waits
    /\ UNCHANGED cvars
    /\ UNCHANGED rep_k
    /\ UNCHANGED PHI
    /\ UNCHANGED xvars

\* server resumed by the end of the service timeout
SwoComplete ==
    /\ variant = "SWO"
    /\ Dispatch("serv")
    /\ prov_pc = "serving"
    /\ Finish(next, now' - serv_start)
    /\ hist' = Departed(hist, next.priority)
    /\ PUcount' = SwoLeft(PUcount, next)
    /\ SwoAfterJob(items, Tail(evq), PUcount')
    /\ UNCHANGED <<variant, done, t_start, ncust, ninc, lastPush>>
    /\ UNCHANGED rvars
    /\ UNCHANGED svars
    /\ UNCHANGED tvars
    /\ UNCHANGED Waits
    /\ UNCHANGED cvars
    /\ UNCHANGED rep_k
    /\ UNCHANGED PHI
    /\ UNCHANGED xvars

\* server resumed by simpy.Interrupt in its service: the job is pushed back
\* with its remaining service
SwoInterrupt ==
    /\ variant = "SWO"
    /\ Dispatch("intr")
    /\ prov_pc = "serving"
    /\ SwoAfterJob(push(items, Interrupted(ExcRequeued(next, now' - serv_start),
                                           now' - serv_start)),
                   Cancel(Tail(evq), "serv"), PUcount)
    /\ hist' = Displaced(hist, next.priority)
    /\ UNCHANGED <<variant, done, t_start, ncust, ninc, w, n, p, lastDone, lastPush>>
    /\ UNCHANGED PUcount
    /\ UNCHANGED rvars
    /\ UNCHANGED svars
    /\ UNCHANGED tvars
    /\ UNCHANGED Waits
    /\ UNCHANGED cvars
    /\ UNCHANGED rep_k
    /\ UNCHANGED PHI
    /\ UNCHANGED xvars

\* server resumed by the end of the switchover timeout: self.Switchover =
\* False, and the loop goes back to its top
SwoSwitchDone ==
    /\ variant = "SWO"
    /\ Dispatch("switch")
    /\ prov_pc = "switch"
    /\ Switchover' = FALSE
    /\ SwoServerLoop(items, Tail(evq), PUperiod)
    /\ UNCHANGED <<variant, done, t_start, ncust, ninc, w, n, p, lastDone, lastPush>>
    /\ UNCHANGED PUcount
    /\ UNCHANGED rvars
    /\ UNCHANGED hist
    /\ UNCHANGED svars
    /\ UNCHANGED tvars
    /\ UNCHANGED Waits
    /\ UNCHANGED cvars
    /\ UNCHANGED rep_k
    /\ UNCHANGED PHI
    /\ UNCHANGED xvars

\* server resumed by simpy.Interrupt in its switchover: self.Switchover =
\* False, nothing is saved, and the loop goes back to its top
SwoSwitchInterrupt ==
    /\ variant = "SWO"
    /\ Dispatch("intr")
    /\ prov_pc = "switch"
    /\ Switchover' = FALSE
    /\ SwoServerLoop(items, Cancel(Tail(evq), "switch"), PUperiod)
    /\ UNCHANGED <<variant, done, t_start, ncust, ninc, w, n, p, lastDone, lastPush>>
    /\ UNCHANGED PUcount
    /\ UNCHANGED rvars
    /\ UNCHANGED hist
    /\ UNCHANGED svars
    /\ UNCHANGED tvars
    /\ UNCHANGED Waits
    /\ UNCHANGED cvars
    /\ UNCHANGED rep_k
    /\ UNCHANGED PHI
    /\ UNCHANGED xvars

NextSwo ==
    \/ SwoArrivalsStart \/ SwoArrive
    \/ SwoServerStart \/ SwoServerWake
    \/ SwoComplete \/ SwoInterrupt
    \/ SwoSwitchDone \/ SwoSwitchInterrupt
    \/ StopRun

SpecSwo == InitSWO /\ [][NextSwo]_vars

(***************************************************************************)
(* The main loops: for k in range(ITERATIONS), a new environment and a new *)
(* simulator are created and run.  The next pass of the loop starts when   *)
(* env.run has returned.                                                   *)
(***************************************************************************)
\* The accumulators of a run whose accumulators were old: np.zeros(3)
KeptAccumulators(old) == old

NewAccumulators(old) == Zero3

\* CBRS_HE_WaitTime_Preemption.py: env = simpy.Environment(),
\* sim = SimEnv(env), env.run(until=SIM_TIME) of the next pass
HeReplicate ==
    /\ variant = "HE"
    /\ done
    /\ rep_k + 1 < ITERATIONS
    /\ rep_k' = rep_k + 1
    /\ UNCHANGED PHI
    /\ UNCHANGED xvars
    /\ now' = 0
    /\ evq' = << Event(0, URGENT, "init_cust"), Event(0, URGENT, "init_inc"),
                 Event(0, URGENT, "init_prov"), Event(SIM_TIME, URGENT, "stop") >>
    /\ done' = FALSE
    /\ w' = NewAccumulators(w) /\ n' = NewAccumulators(n) /\ p' = NewAccumulators(p)
    /\ items' = <<>>
    /\ idle' = TRUE
    /\ next' = NoJob
    /\ serv_start' = 0
    /\ prov_pc' = "init"
    /\ server_wakeup' = "fresh"
    /\ ncust' = 0 /\ ninc' = 0
    /\ lastDone' = NoDone
    /\ lastPush' = -1
    /\ hist' = Hist0
    /\ UNCHANGED <<variant, t_start>>
    /\ UNCHANGED rvars
    /\ UNCHANGED svars
    /\ UNCHANGED tvars
    /\ UNCHANGED Waits
    /\ UNCHANGED cvars
    /\ UNCHANGED wvars

\* 3_mg1_sbd_Model_A_traces.py: the next pass of the loop over k creates the
\* environment, the resource and the arrays wait, n, preempt, starts the two
\* arrival processes and runs.  An exception that left env.run ends the
\* script.
SbdReplicate ==
    /\ variant = "SBD"
    /\ done /\ ~crashed
    /\ rep_k + 1 < ITERATIONS
    /\ rep_k' = rep_k + 1
    /\ UNCHANGED PHI
    /\ UNCHANGED xvars
    /\ now' = 0
    /\ evq' = << Event(0, URGENT, "init_pu"), Event(0, URGENT, "init_cust"),
                 Event(SIM_TIME, URGENT, "stop") >>
    /\ done' = FALSE
    /\ w' = NewAccumulators(w) /\ n' = NewAccumulators(n) /\ p' = NewAccumulators(p)
    /\ procs' = <<>> /\ users' = <<>> /\ put_queue' = <<>>
    /\ ncust' = 0 /\ ninc' = 0
    /\ lastDone' = NoDone
    /\ hist' = Hist0
    /\ UNCHANGED <<variant, t_start, crashed>>
    /\ UNCHANGED hvars
    /\ UNCHANGED svars
    /\ UNCHANGED tvars
    /\ UNCHANGED Waits
    /\ UNCHANGED cvars
    /\ UNCHANGED wvars

\* The replicates of the two scripts.  No provider of an "SBD" run is
\* interrupted while it waits for the server (its arrivals come one to an
\* instant), so the actions of that failure are left out.
InitRep == InitHE \/ InitSBD

NextRep ==
    \/ CustStart \/ CustArrive \/ IncStart \/ IncArrive
    \/ ProvStart \/ ProvWake \/ ProvComplete \/ ProvInterrupt
    \/ ResCustStart \/ ResCustArrive
    \/ ResProviderStart \/ ResProviderGranted \/ ResProviderComplete
    \/ ResRelease \/ ResProviderInterrupt
    \/ SbdPUStart \/ SbdPUArrive
    \/ HeReplicate \/ SbdReplicate
    \/ StopRun

SpecRep == InitRep /\ [][NextRep]_vars

InitHeap == InitHE \/ InitMD1

NextHeap ==
    \/ CustStart \/ CustArrive \/ IncStart \/ IncArrive
    \/ ProvStart \/ ProvWake \/ ProvComplete \/ ProvInterrupt
    \/ MD1ArrivalsStart \/ MD1Arrive
    \/ MD1ServerStart \/ MD1ServerWake \/ MD1ServerComplete
    \/ StopRun

SpecHeap == InitHeap /\ [][NextHeap]_vars

NextRes ==
    \/ ResCustStart \/ ResCustArrive \/ ResIncStart \/ ResIncArrive
    \/ ResProviderStart \/ ResProviderGranted \/ ResProviderComplete
    \/ ResRelease \/ ResProviderInterrupt \/ ResProviderInterruptedAtRequest
    \/ ResCrash
    \/ SbdPUStart \/ SbdPUArrive
    \/ ResReport
    \/ StopRun

InitResFamily == InitRES \/ InitSBD

SpecRes == InitResFamily /\ [][NextRes]_vars

InitSetup == InitEXC \/ InitV3

NextSetup ==
    \/ ExcArrivalsStart \/ ExcArrive
    \/ ExcServerStart \/ ExcServerWake \/ ExcSetupDone
    \/ ExcComplete \/ ExcInterrupt
    \/ V3ArrivalsStart \/ V3Arrive
    \/ V3ServerStart \/ V3ServerWake \/ V3SetupDone
    \/ V3Complete \/ V3Interrupt
    \/ StopRun

SpecSetup == InitSetup /\ [][NextSetup]_vars

Init == InitHeap \/ InitResFamily

Next == NextHeap \/ NextRes

Spec == Init /\ [][Next]_vars

(***************************************************************************)
(* Vocabulary of the properties.                                           *)
(***************************************************************************)
\* The scheduler's next step dispatches an event of kind k.
(***************************************************************************)
(* CBRS_WaitTime_Sim_v1.py and CBRS_WaitTime_Sim_v0.py on the same values  *)
(* of the random number generator: a tape holds, for each arrival of a     *)
(* customer, the interarrival time, the value of rand() behind the class   *)
(* decision and the service time, and for each arrival of an incumbent the *)
(* interarrival time and the service time.  The heap-based v1 is run on    *)
(* the tape first, the resource-based v0 on the same tape after it, both   *)
(* with the same SIM_TIME, T_START and PHI.                                *)
(***************************************************************************)
Tapes ==
    [cust : [1..MaxCust -> [gap : Gaps, r : Rand, serv : ServTimes]],
     inc : [1..MaxInc -> [gap : Gaps, serv : ServTimes]]]

InitV1 == InitHEWith("V1", {1}, Tapes)

\* The run of v1 has returned: its completions and accumulators are kept and
\* PriorityQueue() and launchSimulation() of v0 start a run on the same tape
V0Launch ==
    /\ variant = "V1"
    /\ done
    /\ variant' = "V0"
    /\ first' = [jobs |-> ends, w |-> w, n |-> n]
    /\ ends' = {}
    /\ now' = 0
    /\ evq' = << Event(0, URGENT, "init_cust"), Event(0, URGENT, "init_inc"),
                 Event(SIM_TIME, URGENT, "stop") >>
    /\ done' = FALSE
    /\ items' = <<>>
    /\ idle' = TRUE
    /\ next' = NoJob
    /\ serv_start' = 0
    /\ prov_pc' = "init"
    /\ server_wakeup' = "fresh"
    /\ ncust' = 0 /\ ninc' = 0
    /\ w' = Zero3 /\ n' = Zero3 /\ p' = Zero3
    /\ lastDone' = NoDone
    /\ lastPush' = -1
    /\ hist' = Hist0
    /\ UNCHANGED <<t_start, tape, lvars>>
    /\ UNCHANGED rvars
    /\ UNCHANGED svars
    /\ UNCHANGED tvars
    /\ UNCHANGED Waits
    /\ UNCHANGED cvars
    /\ UNCHANGED wvars
    /\ UNCHANGED rep_k
    /\ UNCHANGED PHI

NextTape ==
    \/ CustStart \/ CustArrive \/ IncStart \/ IncArrive
    \/ ProvStart \/ ProvWake \/ ProvComplete \/ ProvInterrupt
    \/ V0Launch
    \/ ResCustStart \/ ResCustArrive \/ ResIncStart \/ ResIncArrive
    \/ ResProviderStart \/ ResProviderGranted \/ ResProviderComplete
    \/ ResRelease \/ ResProviderInterrupt \/ ResProviderInterruptedAtRequest
    \/ ResCrash
    \/ StopRun

SpecTape == InitV1 /\ [][NextTape]_vars

(***************************************************************************)
(* The action learning loops: CBRS_Customer_Action_Learning.py and         *)
(* 3_mg1_sbd_Model_A_traces_action_learning_old.py (variant "LRN") play    *)
(* ROUNDS rounds of ITERATIONS simulations and take the mean of the values *)
(* the iterations propose; CBRS_Base_v3.py (variant "BR3") updates PHI     *)
(* after every simulation.  A simulation is followed by its result only:   *)
(* DP and DG, the costs of the two classes without the fee, are drawn from *)
(* Costs.  PHI is held in units of 1/LearnScale, ALPHA is 1/AlphaDen, and  *)
(* LearnScale is such that every product and every mean is exact.          *)
(***************************************************************************)
ROUNDS == 2         \* the game is played for ROUNDS rounds
MaxCost == 2        \* the cost of a class is drawn from 0..MaxCost
AlphaDen == 2       \* ALPHA, the fraction eligible for update, is 1/AlphaDen
JoinFee == 1        \* C (F), the cost to join the higher class

Costs == 0..MaxCost

RECURSIVE Pow(_, _)
Pow(b, e) == IF e = 0 THEN 1 ELSE b * Pow(b, e - 1)

LearnScale == 2 * Pow(AlphaDen * ITERATIONS, ROUNDS) * Pow(AlphaDen, ITERATIONS)

LearnFamily == {"LRN", "BR3"}

RECURSIVE Sum(_)
Sum(q) == IF q = <<>> THEN 0 ELSE Head(q) + Sum(Tail(q))

\* np.mean(PHIsim, axis=0)
Mean(q) == Sum(q) \div ITERATIONS

\* np.zeros((ITERATIONS))
Zeros == [k \in 1..ITERATIONS |-> 0]

\* if DP + C < DG  (if F < DS - DP)
PriorityBetter(dp, dg) == dp + JoinFee < dg

\* elif DG < DP + C  (elif F > DS - DP)
GeneralBetter(dp, dg) == dg < dp + JoinFee

\* min(PHI+ALPHA*(1-PHI),1)
Increased(phi) ==
    LET up == phi + (LearnScale - phi) \div AlphaDen
    IN  IF up < LearnScale THEN up ELSE LearnScale

\* max(PHI-ALPHA*PHI,0)
Decreased(phi) ==
    LET down == phi - phi \div AlphaDen
    IN  IF down > 0 THEN down ELSE 0

\* The if / elif of the update: neither branch is taken when the costs are
\* equal, and the variable assigned keeps the value it had, kept.
Updated(phi, dp, dg, kept) ==
    IF PriorityBetter(dp, dg) THEN Increased(phi)
    ELSE IF GeneralBetter(dp, dg) THEN Decreased(phi)
    ELSE kept

InitLearn(file) ==
    /\ variant = file
    /\ now = 0
    /\ evq = <<>>
    /\ done = FALSE
    /\ t_start = 0
    /\ items = <<>>
    /\ idle = TRUE
    /\ next = NoJob
    /\ serv_start = 0
    /\ prov_pc = "init"
    /\ server_wakeup = "fresh"
    /\ ncust = 0 /\ ninc = 0
    /\ w = Zero3 /\ n = Zero3 /\ p = Zero3
    /\ lastDone = NoDone
    /\ lastPush = -1
    /\ procs = <<>> /\ users = <<>> /\ put_queue = <<>> /\ crashed = FALSE
    /\ hist = Hist0
    /\ GUperiod = FALSE /\ Setup = FALSE
    /\ IN_ARRIVALS = <<>> /\ IN_SERVICE = <<>> /\ pu_i = 0
    /\ Waits = NoWaits
    /\ cfg = NoCfg /\ cfg_pc = "none"
    /\ PUperiod = FALSE /\ Switchover = FALSE /\ PUcount = 0
    /\ rep_k = 0
    /\ PHI \in {0, LearnScale \div 2, LearnScale}
    /\ tape = NoTape /\ ends = {} /\ first = NoFirst
    /\ PHIsim = <<>> /\ round = 0 /\ DP = 0 /\ DG = 0

InitLRN == InitLearn("LRN")

InitBR3 == InitLearn("BR3")

\* One pass of `for k in range(ITERATIONS)` of a round: the first pass
\* follows PHIsim = np.zeros((ITERATIONS)); DP, DG = Simulator(...); the
\* update assigns PHIsim[k] in its two branches only.
LearnIterate ==
    /\ variant = "LRN"
    /\ ~done
    /\ rep_k < ITERATIONS
    /\ \E dp \in Costs, dg \in Costs :
         LET sims == IF rep_k = 0 THEN Zeros ELSE PHIsim
         IN  /\ DP' = dp
             /\ DG' = dg
             /\ PHIsim' = [sims EXCEPT
                             ![rep_k + 1] = Updated(PHI, dp, dg, sims[rep_k + 1])]
    /\ rep_k' = rep_k + 1
    /\ UNCHANGED <<variant, now, evq, done, t_start, ncust, ninc, w, n, p, lastDone>>
    /\ UNCHANGED <<hvars, rvars, hist, svars, tvars, Waits, cvars, wvars>>
    /\ UNCHANGED <<PHI, tape, ends, first, round>>

\* The end of a round: PHI = np.mean(PHIsim,axis=0), and the next round
\* starts, if there is one.
LearnRound ==
    /\ variant = "LRN"
    /\ ~done
    /\ rep_k = ITERATIONS
    /\ PHI' = Mean(PHIsim)
    /\ round' = round + 1
    /\ done' = (round + 1 = ROUNDS)
    /\ rep_k' = 0
    /\ UNCHANGED <<variant, now, evq, t_start, ncust, ninc, w, n, p, lastDone>>
    /\ UNCHANGED <<hvars, rvars, hist, svars, tvars, Waits, cvars, wvars>>
    /\ UNCHANGED <<tape, ends, first, PHIsim, DP, DG>>

\* One pass of `for k in range(ITERATIONS)` of CBRS_Base_v3.py:
\* DP, DG = Simulator(...); the update assigns PHI itself.
BaseIterate ==
    /\ variant = "BR3"
    /\ ~done
    /\ \E dp \in Costs, dg \in Costs :
         /\ DP' = dp
         /\ DG' = dg
         /\ PHI' = Updated(PHI, dp, dg, PHI)
    /\ rep_k' = rep_k + 1
    /\ done' = (rep_k + 1 = ITERATIONS)
    /\ UNCHANGED <<variant, now, evq, t_start, ncust, ninc, w, n, p, lastDone>>
    /\ UNCHANGED <<hvars, rvars, hist, svars, tvars, Waits, cvars, wvars>>
    /\ UNCHANGED <<tape, ends, first, PHIsim, round>>

InitLearning == InitLRN \/ InitBR3

NextLearning == LearnIterate \/ LearnRound \/ BaseIterate

SpecLearning == InitLearning /\ [][NextLearning]_vars

\* The two simulators whose customers choose their class by PHI
InitSplit == InitHEWith("HE", PhiValues, {NoTape}) \/ InitMGNP

NextSplit ==
    \/ CustStart \/ CustArrive \/ IncStart \/ IncArrive
    \/ ProvStart \/ ProvWake \/ ProvComplete \/ ProvInterrupt
    \/ MgnpArrivalsStart \/ MgnpArrive
    \/ ResProviderStart \/ ResProviderGranted \/ ResProviderComplete
    \/ ResRelease
    \/ StopRun

SpecSplit == InitSplit /\ [][NextSplit]_vars

Taking(k) == ~done /\ evq # <<>> /\ Head(evq).k = k

\* The step is the arrival of job j: j is pushed with nothing served yet.
ArrivalOf(j) ==
    /\ Taking("cust") \/ Taking("inc") \/ Taking("arrival")
    /\ Len(items') = Len(items) + 1
    /\ \E i \in DOMAIN items' : items'[i] = j
    /\ \A i \in DOMAIN items : items[i] # j
    /\ j.arr0 = now' /\ j.got = 0 /\ j.npre = 0

\* An interrupt of the server process is scheduled (it is dispatched next).
InterruptPending == evq # <<>> /\ Head(evq).k = "intr"

\* A service timeout of the server process is scheduled for time t.
ServiceEndsAt(t) == \E i \in DOMAIN evq : evq[i].k = "serv" /\ evq[i].t = t

\* The step ends a service: the job in service leaves the system.
Completion == Taking("serv")

\* The step takes a job from the queue into service.
Pull ==
    /\ Taking("wakeup") \/ Taking("serv") \/ Taking("intr")
    /\ prov_pc' = "serving"

QueuedJobs == {items[i] : i \in DOMAIN items}

\* RES: the processes of the jobs that are in the system
LiveProcs == {j \in DOMAIN procs : procs[j].pc \in {"init", "wait", "granted", "serving"}}

\* RES: the service timeout of job j is scheduled for time t.
JobServiceEndsAt(j, t) ==
    \E i \in DOMAIN evq : evq[i].k = "serv" /\ evq[i].j = j /\ evq[i].t = t

\* The instant at which the service that an interrupt breaks off would end
ServiceEnd ==
    IF variant \in ResFamily
    THEN procs[Head(evq).j].start + procs[Head(evq).j].service
    ELSE serv_start + next.service

\* The job whose service ends in a Completion step
CompletingJob == IF variant \in ResFamily THEN procs[Head(evq).j] ELSE next

(***************************************************************************)
(* C1. Warm-up gating: the accumulators change only in a step that         *)
(* completes a job at a time strictly greater than t_start; a completion   *)
(* at or before t_start leaves them unchanged; and with t_start at or      *)
(* beyond the horizon every class keeps count 0.                           *)
(***************************************************************************)
C1_WarmUpGating ==
    [][ /\ (w' # w \/ n' # n \/ p' # p) => (Completion /\ now' > t_start)
        /\ (Completion /\ now' <= t_start) => (w' = w /\ n' = n /\ p' = p)
        /\ (Completion /\ now' > t_start) => n' # n
        /\ t_start >= SIM_TIME => n' = Zero3 ]_vars

\* A job completed exactly at the cutoff and nothing was recorded.
C1_Witness ==
    /\ variant = "RES"
    /\ lastDone # NoDone /\ lastDone.at = t_start
    /\ n = Zero3 /\ w = Zero3

(***************************************************************************)
(* C2. Preemptive resume: a preempted job is requeued with its remaining   *)
(* service reduced by exactly the time served in the quantum, the next     *)
(* quantum is scheduled for that remainder only, and the quanta of a       *)
(* completed job add up to its original service requirement.               *)
(***************************************************************************)
C2_PreemptiveResume ==
    /\ \A j \in QueuedJobs : j.service = j.orig - j.got
    /\ (prov_pc = "serving" /\ variant = "HE") =>
          /\ next.service = next.orig - next.got
          /\ serv_start + next.service < SIM_TIME =>
                ServiceEndsAt(serv_start + next.service)
    /\ \A j \in LiveProcs :
          /\ procs[j].service = procs[j].orig - procs[j].got
          /\ (procs[j].pc = "serving" /\ procs[j].start + procs[j].service < SIM_TIME)
                => JobServiceEndsAt(j, procs[j].start + procs[j].service)
    /\ lastDone # NoDone => lastDone.got = lastDone.orig

\* A job that was preempted has completed.
C2_Witness ==
    /\ variant = "HE"
    /\ lastDone # NoDone /\ lastDone.npre > 0 /\ lastDone.got = lastDone.orig

(***************************************************************************)
(* C3. Priority correctness of the three-class heap server: when every     *)
(* event of an instant has been dispatched, no queued job outranks the job *)
(* in service; an arrival that outranks the job in service has it          *)
(* interrupted at once, and an arrival that does not leaves it in service. *)
(***************************************************************************)
C3_PriorityCorrectness ==
    /\ [](variant = "HE" /\ Quiescent /\ prov_pc = "serving"
            => \A j \in QueuedJobs : next.priority <= j.priority)
    /\ [][ \A j \in QueuedJobs' :
             (variant = "HE" /\ ArrivalOf(j) /\ prov_pc = "serving") =>
                /\ j.priority < next.priority => InterruptPending'
                /\ j.priority > next.priority =>
                     (~InterruptPending' /\ next' = next /\ prov_pc' = "serving")
       ]_vars

\* An incumbent has displaced a customer in service and is served while the
\* customer waits.
C3_Witness ==
    /\ variant = "HE" /\ Quiescent /\ prov_pc = "serving" /\ next.priority = 0
    /\ \E j \in QueuedJobs : j.priority > 0 /\ j.npre > 0

(***************************************************************************)
(* C4. Equal priority never preempts: an arrival has the server            *)
(* interrupted only if its priority number is strictly smaller than that   *)
(* of the job in service; an arrival of the class in service is queued and *)
(* the job in service goes on, its service timeout untouched.              *)
(***************************************************************************)
C4_EqualNeverPreempts ==
    [][ \A j \in QueuedJobs' :
          (ArrivalOf(j) /\ prov_pc = "serving") =>
             /\ InterruptPending' => j.priority < next.priority
             /\ j.priority = next.priority =>
                  /\ ~InterruptPending'
                  /\ next' = next /\ prov_pc' = "serving" /\ serv_start' = serv_start
                  /\ \A t \in 0..SIM_TIME : ServiceEndsAt(t) => ServiceEndsAt(t)'
      ]_vars

\* A job waits behind a job of its own class that it found in service.
C4_Witness ==
    /\ variant = "HE" /\ prov_pc = "serving"
    /\ \E j \in QueuedJobs : /\ j.priority = next.priority /\ j.npre = 0
                             /\ j.arr0 > serv_start /\ next.npre = 0
                             /\ j.arr0 < serv_start + next.service

(***************************************************************************)
(* C5. FIFO within a class in the heap-based server: whenever the server   *)
(* takes a job from the queue, no job of the same class that is left       *)
(* waiting arrived earlier, preempted jobs included.                       *)
(***************************************************************************)
C5_FifoWithinClass ==
    [][ Pull => \A j \in QueuedJobs' :
                   j.priority = next'.priority => next'.arr0 < j.arr0 ]_vars

\* A preempted job is back in service ahead of a later job of its class.
C5_Witness ==
    /\ prov_pc = "serving" /\ next.npre > 0
    /\ \E j \in QueuedJobs : j.priority = next.priority /\ j.arr0 > next.arr0

(***************************************************************************)
(* C6. FIFO within a class after requeue in the resource-based provider:   *)
(* whenever a request is granted the server, no job of the same class that *)
(* is left waiting arrived earlier, preempted jobs included.               *)
(***************************************************************************)
C6_FifoAfterRequeue ==
    [][ \A j \in DOMAIN procs' :
          (variant = "RES" /\ procs'[j].pc = "granted"
             /\ (j \in DOMAIN procs => procs[j].pc # "granted")) =>
            \A k \in DOMAIN procs' :
               (procs'[k].pc = "wait" /\ procs'[k].priority = procs'[j].priority)
                  => procs'[j].arr0 < procs'[k].arr0 ]_vars

(***************************************************************************)
(* C7. Preemption at the completion instant: the server is never           *)
(* interrupted at the instant at which the remaining service of the job in *)
(* service reaches 0; that job completes there and is not requeued.        *)
(***************************************************************************)
C7_CompletionFirst ==
    [][ (Taking("intr") /\ (variant \in ResFamily => procs[Head(evq).j].pc = "serving"))
          => now' < ServiceEnd ]_vars

(***************************************************************************)
(* C8. Work conservation: when every event of an instant has been          *)
(* dispatched, a server that is suspended on the wake-up event, or whose   *)
(* idle flag is set, has an empty queue.                                   *)
(***************************************************************************)
C8_WorkConservation ==
    (Quiescent /\ (prov_pc = "sleep" \/ idle)) => items = <<>>

\* The server has gone back to sleep after serving a job.
C8_Witness ==
    /\ Quiescent /\ ~done /\ prov_pc = "sleep" /\ idle /\ items = <<>>
    /\ lastDone # NoDone

(***************************************************************************)
(* C9. The idle wake-up is never lost: a server suspended on a wake-up     *)
(* event waits on the current event object or on one that has been         *)
(* triggered and is about to resume it, and after a push that found the    *)
(* server suspended the server is serving by the end of that instant.      *)
(***************************************************************************)
C9_WakeupNeverLost ==
    /\ prov_pc = "sleep" =>
          (server_wakeup = "awaited" \/ \E i \in DOMAIN evq : evq[i].k = "wakeup")
    /\ (Quiescent /\ lastPush = now) => prov_pc = "serving"

\* A customer and an incumbent were both pushed at one instant while the
\* server was suspended, and the server serves.
C9_Witness ==
    /\ variant = "HE" /\ Quiescent /\ lastPush = now /\ prov_pc = "serving"
    /\ next.arr0 = now /\ next.priority = 0
    /\ \E j \in QueuedJobs : j.arr0 = now

(***************************************************************************)
(* C10. Preemption accounting: the preemption count that a completing job  *)
(* adds to its class total is the number of times the job left the server  *)
(* unfinished and went back to the queue.                                   *)
(***************************************************************************)
C10_PreemptionAccounting ==
    [][ (Completion /\ now' > t_start) =>
           p' = [p EXCEPT ![CompletingJob.priority] = @ + CompletingJob.npre] ]_vars

\* A job that was preempted has completed after the cutoff and was counted.
C10_Witness ==
    /\ variant = "SBD" /\ lastDone # NoDone /\ lastDone.npre > 0
    /\ lastDone.at > t_start /\ p[lastDone.priority] > 0

(***************************************************************************)
(* Counts of the jobs of class c by where they are.                        *)
(***************************************************************************)
\* The jobs of class c held in the queue: heap entries, or requests waiting
\* in put_queue.
Queued(c) ==
    IF variant \in ResFamily
    THEN Cardinality({i \in DOMAIN put_queue : procs[put_queue[i]].priority = c})
    ELSE Cardinality({i \in DOMAIN items : items[i].priority = c})

\* The jobs of class c that hold the server: the job the server process
\* serves, or the requests in users.
InService(c) ==
    IF variant \in ResFamily
    THEN Cardinality({i \in DOMAIN users : procs[users[i]].priority = c})
    ELSE IF prov_pc = "serving" /\ next.priority = c THEN 1 ELSE 0

(***************************************************************************)
(* C11. Preemption bound: at every point of a run of the three-class heap  *)
(* server, the preemptions suffered so far by the jobs of a class do not   *)
(* exceed the arrivals of strictly higher priority that came while a job   *)
(* of that class was in service; the recorded total p is bounded likewise. *)
(***************************************************************************)
C11_PreemptionBound ==
    variant = "HE" =>
       \A c \in 0..2 : /\ hist.preempted[c] <= hist.higher[c]
                       /\ p[c] <= hist.preempted[c]

\* A general customer gave way to a priority customer, who gave way to an
\* incumbent.
C11_Witness ==
    /\ variant = "HE" /\ Quiescent
    /\ hist.preempted[1] = 1 /\ hist.preempted[2] = 1 /\ hist.preempted[0] = 0

(***************************************************************************)
(* C12. Conservation of time: when a job completes, the time from its      *)
(* arrival to its completion equals the service quanta it received plus    *)
(* the intervals it spent in the queue, and after the cutoff this is the   *)
(* value added to the total wait of its class.                             *)
(***************************************************************************)
C12_ConservationOfTime ==
    [][ Completion =>
          /\ lastDone'.at = now'
          /\ lastDone'.arr0 = CompletingJob.arr0
          /\ now' - CompletingJob.arr0 = lastDone'.got + lastDone'.waited
          /\ lastDone'.got = CompletingJob.orig
          /\ now' > t_start =>
                w' = [w EXCEPT ![CompletingJob.priority] =
                                   @ + (now' - CompletingJob.arr0)]
      ]_vars

\* A job that waited, was preempted and waited again has completed and was
\* recorded, in the resource-based simulator.
C12_Witness ==
    /\ variant = "RES" /\ lastDone # NoDone /\ lastDone.counted
    /\ lastDone.npre > 0 /\ lastDone.waited > 1
    /\ w[lastDone.priority] >= lastDone.got + lastDone.waited

(***************************************************************************)
(* C13. Job lifecycle: when every event of an instant has been dispatched, *)
(* every job that has arrived is queued, in service or completed, so per   *)
(* class arrivals = queued + in service + completed; and the jobs in       *)
(* service never outnumber the capacity of the server.                     *)
(***************************************************************************)
C13_JobLifecycle ==
    /\ Quiescent =>
          \A c \in 0..2 :
             hist.arrivals[c] = Queued(c) + InService(c) + hist.completed[c]
    /\ InService(0) + InService(1) + InService(2) <= CAPACITY

(***************************************************************************)
(* C14: in the exceptional-service simulator a GU (priority 1) job that a  *)
(* PU arrival interrupts, during its setup or during its service, stays in *)
(* the system: after the interrupt it is in the queue again (or already    *)
(* taken from it again), to be served once no PU job remains.              *)
(***************************************************************************)
C14_NoJobAbandonment ==
    [][ variant = "EXC" /\ Taking("intr") /\ next.priority = 1 =>
          \/ \E i \in DOMAIN items' :
                items'[i].priority = 1 /\ items'[i].arr0 = next.arr0
          \/ next'.priority = 1 /\ next'.arr0 = next.arr0 ]_vars


(***************************************************************************)
(* C15. Eventual completion in the heap-based preemptive-resume server     *)
(* (CAL): once the arrivals have stopped and the run goes on, every job    *)
(* that arrived is completed, and exactly once: at the end of every        *)
(* instant each arrived job is queued, in service or completed (a          *)
(* preempted job is back in the queue), completions never exceed arrivals, *)
(* and from some time on every class has as many completions as arrivals   *)
(* with nothing left in the queue or in service.                           *)
(***************************************************************************)
AllDone ==
    /\ items = <<>>
    /\ \A c \in 0..2 : InService(c) = 0 /\ hist.completed[c] = hist.arrivals[c]

C15_EventualCompletion ==
    /\ [](Quiescent => \A c \in 0..2 :
            hist.arrivals[c] = Queued(c) + InService(c) + hist.completed[c])
    /\ <>[]AllDone

\* All the jobs of a run have arrived and are completed, a customer last
\* and after a preemption.
C15_Witness ==
    /\ variant = "CAL" /\ AllDone
    /\ hist.arrivals[0] = MaxInc /\ hist.arrivals[1] + hist.arrivals[2] = MaxCust
    /\ hist.preempted[1] + hist.preempted[2] >= 1
    /\ lastDone.npre = 1 /\ lastDone.got = MaxServ


(***************************************************************************)
(* C16. Queueing-wait measurement in the three-class no-adversary          *)
(* simulator: for every job that completes after the warm-up, the value    *)
(* added to the total of its class is the raw queueing wait, the flow time *)
(* (completion time minus arrival time) minus the job's original service   *)
(* length.                                                                 *)
(***************************************************************************)
C16_QueueingWait ==
    [][ variant = "NA" /\ Completion /\ now' > t_start =>
          w' = [w EXCEPT ![CompletingJob.priority] =
                             @ + ((now' - CompletingJob.arr0) - CompletingJob.orig)]
      ]_vars


(***************************************************************************)
(* C17. Queueing-wait measurement in the two-class setup simulator (V3):   *)
(* for every job that completes after the warm-up, the value added to the  *)
(* total of its class is the exit time minus the original arrival time     *)
(* minus the initial service length of the job, however many times the job *)
(* was preempted, and that value is never negative.                        *)
(***************************************************************************)
C17_SetupQueueingWait ==
    [][ variant = "V3" /\ Completion /\ now' > t_start =>
          /\ w' = [w EXCEPT ![next.priority] = @ + ((now' - next.arr0) - next.orig)]
          /\ (now' - next.arr0) - next.orig >= 0
      ]_vars

\* A job preempted in the middle of its service has completed after the
\* warm-up and its wait, setups included, is in the total of its class.
C17_Witness ==
    /\ variant = "V3" /\ lastDone # NoDone /\ lastDone.counted
    /\ lastDone.npre > 0 /\ lastDone.orig = MaxServ
    /\ lastDone.at - lastDone.arr0 - lastDone.orig > 0
    /\ w[lastDone.priority] >= lastDone.at - lastDone.arr0 - lastDone.orig


(***************************************************************************)
(* C18. Trace-driven incumbent generator: the k-th incumbent job (k = 0,   *)
(* 1, ...) uses the entries at index k mod N of the two traces, wrapping   *)
(* around to 0 when the traces are exhausted, and the index in use is      *)
(* always a valid position in both the interarrival trace and the service  *)
(* trace.  ninc is the number of incumbent jobs generated so far, so pu_i  *)
(* is the index for job number ninc.                                       *)
(***************************************************************************)
C18_TraceIndex ==
    variant = "TRC" =>
        /\ pu_i = ninc % Len(IN_SERVICE)
        /\ pu_i < Len(IN_SERVICE)
        /\ pu_i < Len(IN_ARRIVALS)


(***************************************************************************)
(* C19. Empty-class statistics: a class with no recorded completion at the *)
(* end of a run gets a defined no-samples outcome (or the analytical       *)
(* placeholder), and its total wait is never divided by a zero count: no   *)
(* mean of the run is a quotient with denominator 0.                       *)
(***************************************************************************)
C19_NoZeroCountDivision == \A c \in 0..2 : Waits[c].den # 0


(***************************************************************************)
(* C20. Configuration errors stop the scenario before any run: if an       *)
(* arrival rate is greater than or equal to the (effective) service rate,  *)
(* or K (or K_IN) is below 1, or PHI lies outside [0,1], no simulation     *)
(* environment is created or run.                                          *)
(***************************************************************************)
ConfigError(c) ==
    \/ \E l \in DOMAIN c.LAM :
          IF c.file = "MG1NP" THEN c.LAM[l] >= c.MU ELSE AtLeastMuEff(c.LAM[l], c)
    \/ c.K < 1
    \/ c.file = "LATS" /\ c.K_IN < 1
    \/ c.file # "LATS" /\ \E l \in DOMAIN c.PHI : c.PHI[l] < 0 \/ c.PHI[l] > 1

C20_ConfigErrorsStop == cfg_pc = "running" => ~ConfigError(cfg)


(***************************************************************************)
(* C21. Determinism of the heap-based three-class simulator: with the      *)
(* sampled interarrival times, class decisions and service times fixed,    *)
(* the order of dispatch is fixed, and events scheduled for the same       *)
(* instant are dispatched in the order in which they were scheduled: an    *)
(* event that enters the event list is placed behind every event of the    *)
(* same instant that is already waiting in it.                             *)
(***************************************************************************)
Scheduled(e) == \A m \in DOMAIN evq : evq[m] # e

C21_SubmissionOrder ==
    [][ variant = "HE" =>
          \A a, b \in DOMAIN evq' :
             (a < b /\ evq'[a].t = evq'[b].t)
                => ~(Scheduled(evq'[a]) /\ ~Scheduled(evq'[b])) ]_vars


(***************************************************************************)
(* C22. Replicate isolation: every replicate starts with a new environment *)
(* at time 0, an empty queue, an idle server and all per-class             *)
(* accumulators equal to 0; nothing the previous replicate left in its     *)
(* queue, server or accumulators is there when the next one starts.        *)
(***************************************************************************)
FreshRun ==
    /\ now = 0
    /\ done = FALSE
    /\ items = <<>> /\ put_queue = <<>>
    /\ idle = TRUE /\ users = <<>> /\ procs = <<>>
    /\ w = Zero3 /\ n = Zero3 /\ p = Zero3

C22_ReplicateIsolation ==
    /\ FreshRun
    /\ [][ rep_k' # rep_k => FreshRun' ]_vars

\* The second replicate is about to start, after a run that has served jobs
C22_Witness ==
    /\ rep_k > 0
    /\ FreshRun
    /\ Len(evq) > 1

(***************************************************************************)
(* C27. PUcount in the switchover simulator: at every instant PUcount is   *)
(* the number of PU (priority 0) jobs present in the system, in the queue  *)
(* or in service, whether the PU jobs that left did so before or after the *)
(* warm-up cutoff.                                                         *)
(***************************************************************************)
PUPresent ==
    Cardinality({i \in DOMAIN items : items[i].priority = 0})
    + (IF prov_pc = "serving" /\ next.priority = 0 THEN 1 ELSE 0)

C27_PUcountInvariant == variant = "SWO" => PUcount = PUPresent

(***************************************************************************)
(* C23. Switchover after every PU busy period: in the switchover           *)
(* simulator, whenever a PU (priority 0) job completes and no PU job       *)
(* remains in the system, the server starts a switchover before it serves  *)
(* a GU job or goes idle, before the warm-up cutoff as well as after it.   *)
(***************************************************************************)
C23_SwitchoverAfterPUPeriod ==
    [][ (variant = "SWO" /\ Taking("serv") /\ next.priority = 0
         /\ \A i \in DOMAIN items : items[i].priority # 0)
           => prov_pc' = "switch" /\ Switchover' ]_vars

(***************************************************************************)
(* C28. The switchover is preemptive-repeat: a PU arrival during a         *)
(* switchover interrupts it, the switchover's timeout is dropped and the   *)
(* PU job enters service at that instant; a GU arrival leaves the          *)
(* switchover's timeout in place, and a GU job enters service from a       *)
(* switchover only when that timeout is dispatched; the Switchover flag is *)
(* FALSE whenever a job is in service.                                     *)
(***************************************************************************)
SwitchEndsAt(q, t) == \E i \in DOMAIN q : q[i].k = "switch" /\ q[i].t = t

ArrivalDuringSwitchover(c) ==
    /\ variant = "SWO" /\ Taking("arrival") /\ prov_pc = "switch"
    /\ hist'.arrivals[c] = hist.arrivals[c] + 1

C28_SwitchoverPreemptiveRepeat ==
    /\ [](variant = "SWO" /\ prov_pc = "serving" => Switchover = FALSE)
    /\ [](variant = "SWO" /\ prov_pc = "switch" => Switchover = TRUE)
    /\ [][ ArrivalDuringSwitchover(0) => Head(evq').k = "intr" ]_vars
    /\ [][ (variant = "SWO" /\ Taking("intr") /\ prov_pc = "switch")
              => /\ prov_pc' = "serving" /\ next'.priority = 0
                 /\ serv_start' = now' /\ now' = now
                 /\ \A t \in 0..RunEnd : ~SwitchEndsAt(evq', t) ]_vars
    /\ [][ ArrivalDuringSwitchover(1)
              => /\ prov_pc' = "switch"
                 /\ \A t \in 0..RunEnd : SwitchEndsAt(evq, t) => SwitchEndsAt(evq', t)
                 /\ Head(evq').k # "intr" ]_vars
    /\ [][ (variant = "SWO" /\ prov_pc = "switch" /\ prov_pc' = "serving"
            /\ next'.priority = 1) => Taking("switch") ]_vars

\* A PU packet has arrived during a switchover, which is about to be interrupted
C28_Witness ==
    /\ variant = "SWO"
    /\ prov_pc = "switch" /\ Switchover
    /\ InterruptPending
    /\ \E t \in now + 1..RunEnd : SwitchEndsAt(evq, t)

\* A GU packet has arrived during a switchover, which goes on
C28_WitnessGU ==
    /\ variant = "SWO"
    /\ prov_pc = "switch" /\ Switchover
    /\ \E i \in DOMAIN items : items[i].priority = 1 /\ items[i].arr0 = now
    /\ \E t \in now + 1..RunEnd : SwitchEndsAt(evq, t)

(***************************************************************************)
(* C24. Exceptional service: in the exceptional-service simulator a GU job *)
(* that enters service goes through a setup first exactly when it starts a *)
(* GU busy period: the server was idle just before, or the step is not the *)
(* completion of a GU job.  A GU job that follows a completed GU job       *)
(* without an idle gap gets no setup.                                      *)
(***************************************************************************)
GUEntersService ==
    /\ variant = "EXC"
    /\ prov_pc' \in {"setup", "serving"}
    /\ Len(items') < Len(items) \/ Taking("intr")
    /\ next'.priority = 1

C24_ExceptionalService ==
    [][ GUEntersService =>
          (prov_pc' = "setup"
             <=> (prov_pc = "sleep" \/ ~(Taking("serv") /\ next.priority = 1))) ]_vars

(***************************************************************************)
(* C25. The two-class simulators without preemption: no interrupt is ever  *)
(* scheduled; a job that has started service stays in service, untouched   *)
(* by arrivals, until the step that completes it, exactly one service time *)
(* after its start; and the job given the server is first in (class,       *)
(* arrival) order among the waiting jobs, so a class-0 job that arrived    *)
(* during a class-1 service is served next after that completion.          *)
(***************************************************************************)
NpFamily == {"MD1", "MGNP"}

Waiting(k) == procs[k].pc = "wait"

C25_NonPreemptive ==
    /\ [](variant \in NpFamily => \A i \in DOMAIN evq : evq[i].k # "intr")
    /\ [][ (variant = "MD1" /\ prov_pc = "serving")
             => IF Taking("serv")
                THEN now' = serv_start + SERV_TIME
                ELSE next' = next /\ serv_start' = serv_start
                     /\ (prov_pc' = "serving" \/ done') ]_vars
    /\ [][ (variant = "MD1" /\ Taking("serv") /\ next.priority = 1
            /\ \E i \in DOMAIN items : items[i].priority = 0)
             => /\ prov_pc' = "serving" /\ serv_start' = now'
                /\ next'.priority = 0
                /\ \A i \in DOMAIN items :
                     items[i].priority = 0 => next'.arr0 <= items[i].arr0 ]_vars
    /\ [][ variant = "MGNP" =>
             \A j \in DOMAIN procs :
                procs[j].pc = "serving"
                  => IF Taking("serv") /\ Head(evq).j = j
                     THEN now' = procs[j].start + procs[j].orig
                     ELSE procs'[j] = procs[j] /\ users' = <<j>> ]_vars
    /\ [][ variant = "MGNP" =>
             \A h \in DOMAIN procs :
                (procs[h].pc # "granted" /\ procs'[h].pc = "granted")
                  => \A k \in DOMAIN procs :
                       (Waiting(k)' /\ k # h)
                         => \/ procs[h].priority < procs[k].priority
                            \/ /\ procs[h].priority = procs[k].priority
                               /\ procs[h].arr0 <= procs[k].arr0 ]_vars
    /\ [][ variant = "MGNP" =>
             \A h \in DOMAIN procs :
                procs[h].pc = "granted"
                  => /\ users' = <<h>>
                     /\ procs'[h].pc = IF Taking("granted") THEN "serving"
                                       ELSE "granted" ]_vars

\* MD1: a class-0 job that arrived during the service of a class-1 job has
\* been given the server at that job's completion, ahead of a class-1 job
\* that arrived before it
C25_Witness ==
    /\ variant = "MD1"
    /\ prov_pc = "serving" /\ next.priority = 0
    /\ lastDone.priority = 1 /\ lastDone.at = serv_start
    /\ next.arr0 < lastDone.at /\ next.arr0 > lastDone.at - SERV_TIME
    /\ \E i \in DOMAIN items :
         items[i].priority = 1 /\ items[i].arr0 < next.arr0

\* MGNP: the same, for the provider processes
C25_WitnessResource ==
    /\ variant = "MGNP"
    /\ \E h, k \in DOMAIN procs :
         /\ procs[h].pc = "serving" /\ procs[h].priority = 0
         /\ lastDone.priority = 1 /\ lastDone.at = procs[h].start
         /\ procs[h].arr0 < lastDone.at
         /\ procs[h].arr0 > lastDone.at - lastDone.orig
         /\ Waiting(k) /\ procs[k].priority = 1 /\ procs[k].arr0 < procs[h].arr0

(***************************************************************************)
(* C29. Setup phase of the two-class setup simulator (v3): a job enters    *)
(* service only at the end of a setup timeout that was started when the    *)
(* job was taken from the queue, also when it is taken again after a       *)
(* preemption; a job interrupted in its setup goes back to the queue with  *)
(* its remaining service unchanged; a job interrupted in its service goes  *)
(* back with what was left of its service timeout, so that the setup time  *)
(* is never deducted and a completed job has received its whole service.   *)
(***************************************************************************)
RequeuedWith(job, serv) ==
    \E i \in DOMAIN items' :
       /\ items'[i].priority = job.priority /\ items'[i].arr0 = job.arr0
       /\ items'[i].service = serv /\ items'[i].init = job.init

\* A timeout of this kind is due at time t (beyond the end of the run it is
\* never dispatched and the event list does not hold it)
Due(q, kind, t) == t >= RunEnd \/ \E i \in DOMAIN q : q[i].k = kind /\ q[i].t = t

C29_WitnessSetup ==
    /\ variant = "V3"
    /\ prov_pc = "setup"
    /\ next.npre > 0 /\ next.got = 0 /\ next.service = next.orig

(***************************************************************************)
(* C30. Priority boost in the trace-driven simulators: a preempted job     *)
(* requests the server again with its priority lowered by 0.0001 for each  *)
(* of its preemptions.  When a job is given the server, no waiting job is  *)
(* of a strictly higher class, and no waiting job of its own class has     *)
(* been preempted more often than it: a preempted job goes before the jobs *)
(* of its class that wait with their first request.  A job that completes  *)
(* is recorded under the class it arrived with.                            *)
(***************************************************************************)
Granting(h) == procs[h].pc # "granted" /\ procs'[h].pc = "granted"

GrantedInOrder ==
    \A h \in DOMAIN procs :
       Granting(h) =>
         \A k \in DOMAIN procs :
            (k # h /\ procs'[k].pc = "wait")
              => /\ procs'[k].priority >= procs'[h].priority
                 /\ (procs'[k].priority = procs'[h].priority
                       => procs'[k].preemptions <= procs'[h].preemptions)

RecordedUnderArrivalClass ==
    Taking("serv") =>
       LET j == Head(evq).j
           class == procs[j].priority
       IN  /\ procs[j].preemptions < PrioUnit
           /\ IF Recorded(now')
              THEN /\ n' = [n EXCEPT ![class] = @ + 1]
                   /\ p' = [p EXCEPT ![class] = @ + procs[j].preemptions]
                   /\ w' = [w EXCEPT ![class] = @ + (now' - procs[j].arr0)]
              ELSE n' = n /\ p' = p /\ w' = w

C30_PriorityBoost ==
    [][ (variant \in SbdFamily) => (GrantedInOrder /\ RecordedUnderArrivalClass) ]_vars

\* A preempted job holds the server again while a job of its class, whose
\* request is older than the preempted job's new one, still waits
C30_Witness ==
    /\ variant \in SbdFamily
    /\ \E h, k \in DOMAIN procs :
         /\ procs[h].pc \in {"granted", "serving"}
         /\ procs[h].preemptions > 0
         /\ procs[k].pc = "wait" /\ procs[k].preemptions = 0
         /\ procs[k].priority = procs[h].priority
         /\ procs[k].time < procs[h].time

\* A job of class 1 holds the server while a preempted job of class 2, whose
\* request is older, waits
C30_WitnessHigherClass ==
    /\ variant \in SbdFamily
    /\ \E h, k \in DOMAIN procs :
         /\ procs[h].pc \in {"granted", "serving"} /\ procs[h].priority = 1
         /\ procs[k].pc = "wait" /\ procs[k].preemptions > 0
         /\ procs[k].priority = 2
         /\ procs[k].time < procs[h].time

\* A preempted job has completed after the cutoff and has been recorded
C30_WitnessRecorded ==
    /\ variant \in SbdFamily
    /\ lastDone.npre > 0 /\ lastDone.counted /\ lastDone.priority > 0
    /\ n[lastDone.priority] > 0

(***************************************************************************)
(* C31. Frame condition of a preemption in the heap-based server: the      *)
(* step that handles the interrupt puts the job in service back with its   *)
(* class and its arrival time, with its service shortened by the time it   *)
(* was served and its preemption count raised by one; every other tuple of *)
(* the queue is the same before and after, whether it stays in the queue   *)
(* or is taken into service, and w, n and p are unchanged.                 *)
(***************************************************************************)
TupleOf(j) == <<j.priority, j.entry, j.service, j.preemptions>>

\* how many times the tuple t is in the queue q
Held(q, t) == Cardinality({i \in DOMAIN q : TupleOf(q[i]) = t})

PutBackTuple ==
    <<next.priority, next.entry, next.service - (now' - serv_start),
      next.preemptions + 1>>

C31_PreemptionFrame ==
    [][ (variant = "HE" /\ Taking("intr"))
          => /\ prov_pc' = "serving"
             /\ \A t \in {TupleOf(items[i]) : i \in DOMAIN items}
                         \cup {PutBackTuple, TupleOf(next')}
                         \cup {TupleOf(items'[i]) : i \in DOMAIN items'} :
                   Held(items', t) + (IF TupleOf(next') = t THEN 1 ELSE 0)
                     = Held(items, t) + (IF PutBackTuple = t THEN 1 ELSE 0)
             /\ w' = w /\ n' = n /\ p' = p ]_vars

\* A job that was served for a while and preempted is in the queue, behind
\* another job that was queued before the preemption
C31_Witness ==
    /\ variant = "HE"
    /\ \E i, k \in DOMAIN items :
         /\ items[i].preemptions > 0 /\ items[i].service < items[i].orig
         /\ items[i].entry = items[i].arr0
         /\ k # i /\ items[k].preemptions = 0 /\ items[k].entry < now

(***************************************************************************)
(* C32. Class split at the boundaries: in a run with PHI = 0 every         *)
(* customer arrival is of the lower class, in a run with PHI = 1 every     *)
(* customer arrival is of the higher class; and the class of a job that is *)
(* in the system after a step is the class it had before the step, or the  *)
(* class it has just arrived with.  The classes of the customers are 1     *)
(* (higher) and 2 in CBRS_HE_WaitTime_Preemption.py, 0 (higher) and 1 in   *)
(* MG1_NP_Two_Class.py.                                                    *)
(***************************************************************************)
HigherClass == IF variant = "HE" THEN 1 ELSE 0

LowerClass == HigherClass + 1

\* the jobs of the heap-based server, in the queue or in service
HeapJobs ==
    QueuedJobs \cup (IF prov_pc = "serving" THEN {next} ELSE {})

ClassKept ==
    /\ \A a \in HeapJobs' :
          \/ \E b \in HeapJobs : b.arr0 = a.arr0 /\ b.priority = a.priority
          \/ a.arr0 = now' /\ a.preemptions = 0
    /\ \A j \in DOMAIN procs :
          (j \in DOMAIN procs' /\ procs'[j].pc # "done")
             => procs'[j].priority = procs[j].priority

C32_ClassSplit ==
    /\ [](variant \in {"HE", "MGNP"}
            => /\ PHI = 0 => hist.arrivals[HigherClass] = 0
               /\ PHI = PhiSteps => hist.arrivals[LowerClass] = 0)
    /\ [][ (variant \in {"HE", "MGNP"}) => ClassKept ]_vars

(***************************************************************************)
(* C33. Remaining service stays in range, in the heap-based simulator and  *)
(* in the resource-based one: the remaining service of every job in the    *)
(* queue, in service or waiting for the server lies between 0 and the      *)
(* service time the job arrived with, no step increases it, and no event   *)
(* is scheduled for a time before the current one.                         *)
(***************************************************************************)
ServiceFamily == {"HE", "RES"}

InRange(j) == 0 <= j.service /\ j.service <= j.orig

C33_RemainingServiceInRange ==
    /\ [](variant \in ServiceFamily
            => /\ \A j \in HeapJobs : InRange(j)
               /\ \A j \in LiveProcs : InRange(procs[j])
               /\ \A i \in DOMAIN evq : evq[i].t >= now)
    /\ [][ (variant \in ServiceFamily)
             => /\ \A a \in HeapJobs' : \A b \in HeapJobs :
                     (b.arr0 = a.arr0 /\ b.priority = a.priority)
                        => a.service <= b.service
                /\ \A j \in LiveProcs :
                     j \in LiveProcs' => procs'[j].service <= procs[j].service ]_vars

\* A job was preempted at the very instant its service would have ended: it
\* is in the queue with nothing left to serve
C33_Witness ==
    /\ variant = "HE"
    /\ \E i \in DOMAIN items :
         items[i].service = 0 /\ items[i].preemptions > 0 /\ items[i].orig > 0

\* The same in the resource-based simulator
C33_WitnessResource ==
    /\ variant = "RES"
    /\ \E j \in LiveProcs :
         procs[j].service = 0 /\ procs[j].preemptions > 0 /\ procs[j].orig > 0

(***************************************************************************)
(* C34. Incumbents never overlap in the trace-driven simulator: at most    *)
(* one incumbent job is in the system; an incumbent never waits in the     *)
(* queue of the server and holds the server from the instant of its        *)
(* arrival; it is never preempted, so p[0] stays 0; and it completes       *)
(* exactly its service time after its arrival, which is the flow time      *)
(* added to w[0] when the completion is recorded.                          *)
(***************************************************************************)
Incumbents == {j \in LiveProcs : procs[j].priority = 0}

IncumbentCompletes ==
    /\ Taking("serv")
    /\ procs[Head(evq).j].priority = 0

C34_IncumbentsNeverOverlap ==
    /\ [](variant = "TRC"
            => /\ Cardinality(Incumbents) <= 1
               /\ \A j \in Incumbents :
                    /\ procs[j].pc # "wait"
                    /\ procs[j].preemptions = 0
                    /\ procs[j].pc \in {"init", "granted"} => now = procs[j].arr0
                    /\ procs[j].pc = "serving" => procs[j].start = procs[j].arr0
               /\ p[0] = 0)
    /\ [][ (variant = "TRC" /\ IncumbentCompletes)
             => LET j == Head(evq).j
                IN  /\ now' - procs[j].arr0 = procs[j].orig
                    /\ w' = IF Recorded(now')
                            THEN [w EXCEPT ![0] = @ + procs[j].orig]
                            ELSE w ]_vars

\* The second incumbent of a run is in service, and it took the server from
\* a customer, who waits with a preemption to its name
C34_Witness ==
    /\ variant = "TRC"
    /\ ninc >= 2
    /\ \E j \in Incumbents : procs[j].pc = "serving"
    /\ \E k \in LiveProcs :
         procs[k].priority > 0 /\ procs[k].pc = "wait" /\ procs[k].preemptions > 0

\* An incumbent that arrived into a busy server has completed after the
\* cutoff and has been recorded
C34_WitnessRecorded ==
    /\ variant = "TRC"
    /\ lastDone.priority = 0 /\ lastDone.counted /\ w[0] > 0
    /\ hist.preempted[1] + hist.preempted[2] > 0

(***************************************************************************)
(* C35. The highest class is never preempted in the heap-based simulator:  *)
(* while a job of class 0 is in service no interrupt of the server is      *)
(* pending, the job in service when an interrupt is handled is never of    *)
(* class 0, no job of class 0 carries a preemption, and p[0] is 0.  The    *)
(* customers and the incumbents come from independent generators, so a     *)
(* customer and an incumbent may arrive at the same instant.               *)
(***************************************************************************)
C35_HighestClassNeverPreempted ==
    /\ [](variant = "HE"
            => /\ (prov_pc = "serving" /\ next.priority = 0) => ~InterruptPending
               /\ \A j \in HeapJobs : j.priority = 0 => j.preemptions = 0
               /\ p[0] = 0
               /\ hist.preempted[0] = 0)
    /\ [][ (variant = "HE" /\ Taking("intr")) => next.priority > 0 ]_vars

\* An incumbent is in service since its arrival, which interrupted a
\* customer, and another customer has arrived at that same instant
C35_Witness ==
    /\ variant = "HE"
    /\ prov_pc = "serving" /\ next.priority = 0
    /\ serv_start = next.arr0
    /\ \E i, k \in DOMAIN items :
         /\ items[i].priority > 0 /\ items[i].arr0 = next.arr0
         /\ items[k].preemptions > 0

\* An incumbent has completed after the cutoff and a customer arrived while
\* it was in service
C35_WitnessRecorded ==
    /\ variant = "HE"
    /\ lastDone.priority = 0 /\ lastDone.counted /\ n[0] > 0
    /\ \E j \in HeapJobs :
         j.priority > 0 /\ j.arr0 > lastDone.arr0 /\ j.arr0 < lastDone.at

(***************************************************************************)
(* C36. Preemption never aborts the run in the two-tier DySpan trace       *)
(* simulator: the step in which the provider of a job in service handles   *)
(* the interrupt leaves the process alive, with its request for the server *)
(* made again and its service time reduced by the time it was served; no   *)
(* process fails in that step and the run is not aborted by it.            *)
(***************************************************************************)
PreemptedInService(j) ==
    /\ Taking("intr")
    /\ j = Head(evq).j
    /\ procs[j].pc = "serving"

C36_PreemptionHandled ==
    [][ (variant = "DYS")
          => \A j \in DOMAIN procs :
                PreemptedInService(j)
                  => /\ procs'[j].pc \in {"wait", "granted"}
                     /\ procs'[j].service = procs[j].service - (now' - procs[j].start)
                     /\ \A i \in DOMAIN evq' : evq'[i].k # "fail" ]_vars

(***************************************************************************)
(* C37. Version equivalence of the CBRS wait-time simulators: when the     *)
(* resource-based v0 has run on the tape on which the heap-based v1 ran    *)
(* before, the two runs have completed the same jobs at the same times and *)
(* have ended with the same w and n.                                       *)
(***************************************************************************)
C37_VersionEquivalence ==
    (variant = "V0" /\ done)
       => /\ ends = first.jobs
          /\ w = first.w
          /\ n = first.n

(***************************************************************************)
(* C38.  The best-response update keeps PHI a probability and is neutral   *)
(* at indifference: the value an iteration of a learning loop proposes     *)
(* (PHIsim[k] in the loops that play rounds, PHI itself in CBRS_Base_v3)   *)
(* lies in [0,1], is not below the current PHI when the higher class is    *)
(* strictly better off, is not above it when the lower class is strictly   *)
(* better off, and is the current PHI when neither is; the PHI a round     *)
(* ends with lies in [0,1].                                                *)
(***************************************************************************)
Iterates == variant \in LearnFamily /\ rep_k' = rep_k + 1

Proposed == IF variant = "LRN" THEN PHIsim'[rep_k'] ELSE PHI'

ProposedInRange == Proposed \in 0..LearnScale

ProposedFollowsCosts ==
    /\ PriorityBetter(DP', DG') => (Proposed >= PHI)
    /\ GeneralBetter(DP', DG') => (Proposed <= PHI)

ProposedNeutral ==
    (~PriorityBetter(DP', DG') /\ ~GeneralBetter(DP', DG')) => (Proposed = PHI)

C38_BestResponseUpdate ==
    /\ [][ Iterates => (ProposedInRange /\ ProposedFollowsCosts /\ ProposedNeutral) ]_vars
    /\ [](variant \in LearnFamily => PHI \in 0..LearnScale)

====
